---- MODULE Spec2Model ----
(***************************************************************************)
(* The admin dashboard's two stateful views: the Calendar (blocked dates,  *)
(* room inventory and date prices) and the CreateBooking form.  Each view  *)
(* is a React component: its useState cells are the fields of one record   *)
(* (cal, bk), an event handler together with the effects it triggers is    *)
(* one action, and every network call is a continuation kept in `pending`  *)
(* until its response arrives.                                             *)
(***************************************************************************)
EXTENDS Integers, Sequences, FiniteSets, Bags, TLC

\* ------------------------------------------------------------------ bounds
MaxRecs == 2       \* records the server's blocked-dates table holds at most
MaxBooked == 2     \* the occupancy endpoint answers total_rooms in 0..MaxBooked
MaxRooms == 2      \* room inventory of the standard accommodation, 0..MaxRooms
MaxInFlight == 1   \* a handler starts a network call only while fewer are in flight
MaxStay == 3       \* the dates typed into the form are the days -1..MaxStay
MaxSaves == 2      \* saves and removals one Calendar session issues at most

\* ---------------------------------------------------------- JS value model
\* null / undefined / '' / NaN are the empty tuple, a present value v is <<v>>.
NULL == <<>>
NaN == <<>>
Some(x) == <<x>>
Get(o) == o[1]
\* `o || 0` and `n || null` on numbers
OrZero(o) == IF o = NULL \/ Get(o) = 0 THEN 0 ELSE Get(o)
OrNull(n) == IF n = 0 THEN NULL ELSE Some(n)
\* `o || ''` on a nullable number: 0 and null both become ''
Truthy(o) == IF o = NULL \/ Get(o) = 0 THEN NULL ELSE o
Max0(n) == IF n < 0 THEN 0 ELSE n

\* ------------------------------------------------------------- environment
AccIds == {1, 2}
\* Calendar days are day offsets from today: -1 is yesterday, 0 is today.
Days == {-1, 0, 1}
IsPast(day) == day < 0

\* mounted: the page on screen.  accDb, store, coupons: the backend's
\* accommodations, blocked-dates and coupons tables.  nextId: the id the
\* backend gives the next blocked-dates row.  writes: the saves and removals
\* the Calendar has issued.  lenientDates: whether
\* the engine's Date parser accepts a non-ISO date-time string.  cal, bk: the
\* state of the Calendar and of the CreateBooking component.  pending: the
\* network calls in flight.  resolved, submitted: the last completed
\* calculateAvailableRooms call and the last click on a submit button
\* (handleSubmit of the form, handleSaveBlockedDates of the Calendar), kept
\* for the one state that follows them.  answered: the answer a read got (its call
\* and whether it succeeded), kept likewise for the one state that follows
\* the step that consumed it.
VARIABLES mounted, accDb, store, nextId, writes, coupons, lenientDates, cal,
          bk, pending, resolved, submitted, answered

env == <<accDb, store, nextId, writes, coupons, lenientDates>>
vars == <<mounted, accDb, store, nextId, writes, coupons, lenientDates, cal,
          bk, pending, resolved, submitted, answered>>

\* The accommodations table of the backend: one villa and one standard
\* accommodation whose room inventory r is drawn at start.
AccCatalog(r) ==
  [i \in AccIds |->
     IF i = 1
     THEN [id |-> 1, name |-> "Villa", type |-> "Villa", capacity |-> 2,
           rooms |-> 1, adult |-> 5, child |-> 0, rate |-> Some(2)]
     ELSE [id |-> 2, name |-> "Lake View", type |-> "Deluxe", capacity |-> 2,
           rooms |-> r, adult |-> 3, child |-> 1, rate |-> NULL]]

\* A timestamp of a row: NULL when the field is missing, else its format and
\* its day of the month.  "local" is "dd/11/2025, 10:00:00", the format
\* parseDate expects; "iso" is "2025-11-ddT10:00:00.000Z".
Local(day) == Some([fmt |-> "local", day |-> day])
Iso(day) == Some([fmt |-> "iso", day |-> day])
Stamps ==
  {[updated_at |-> NULL, created_at |-> Local(10)],
   [updated_at |-> Local(9), created_at |-> NULL],
   [updated_at |-> Iso(12), created_at |-> Local(10)]}
BlockedRoomVals == {NULL, Some(1)}

\* A row of the blocked-dates table.  The Calendar reads rooms, the prices,
\* the reason and the stamps; CreateBooking reads rooms_blocked.
BlockedRow(acc, day, rooms, stamp, roomsBlocked) ==
  [accommodation_id |-> acc, blocked_date |-> day, rooms |-> rooms,
   adult_price |-> NULL, child_price |-> NULL, reason |-> "",
   updated_at |-> stamp.updated_at, created_at |-> stamp.created_at,
   rooms_blocked |-> roomsBlocked]

\* The rows the table may hold for one calendar day
CalRecSpace ==
  {BlockedRow(a, 0, r, s, NULL) : a \in AccIds, r \in BlockedRoomVals, s \in Stamps}

WithId(r, i) ==
  [id |-> i, accommodation_id |-> r.accommodation_id,
   blocked_date |-> r.blocked_date, rooms |-> r.rooms,
   adult_price |-> r.adult_price, child_price |-> r.child_price,
   reason |-> r.reason, updated_at |-> r.updated_at,
   created_at |-> r.created_at, rooms_blocked |-> r.rooms_blocked]

Tables(space, n) ==
  UNION {{[i \in 1..k |-> WithId(f[i], i)] : f \in [1..k -> space]} : k \in 0..n}

\* --------------------------------------------------- Calendar: pure helpers
\* Math.max and > on numbers that may be NaN
MathMax(a, b) ==
  IF a = NaN \/ b = NaN THEN NaN
  ELSE IF Get(a) >= Get(b) THEN a ELSE b
Gt(a, b) == a # NaN /\ b # NaN /\ Get(a) > Get(b)

\* parseDate(...).getTime().  A missing stamp is new Date(0).  Otherwise the
\* string is split at ', ' and '/', the pieces are converted with Number and
\* the date is rebuilt as `${year}-${month}-${day}T${time}`.  An "iso" stamp
\* has no ', ' and no '/', so the rebuilt string is
\* "undefined-undefined-NaNTundefined": Invalid Date, whose time is NaN.  A
\* "local" stamp with a two-digit day gives an ISO string and its time; with
\* a one-digit day Number drops the leading zero and the parse of the result
\* is left to the engine: the intended time if it is lenient, NaN if not.
parseDate(s) ==
  IF s = NULL THEN Some(0)
  ELSE IF Get(s).fmt = "iso" THEN NaN
  ELSE IF Get(s).day >= 10 THEN Some(Get(s).day)
  ELSE IF lenientDates THEN Some(Get(s).day) ELSE NaN

EntryTime(item) == MathMax(parseDate(item.updated_at), parseDate(item.created_at))

RelevantBlocked(list, accommodationId, dateStr) ==
  SelectSeq(list, LAMBDA item : item.accommodation_id = accommodationId
                                /\ item.blocked_date = dateStr)

RECURSIVE ReduceLatest(_, _, _)
ReduceLatest(rel, i, latest) ==
  IF i > Len(rel) THEN latest
  ELSE ReduceLatest(rel, i + 1,
         IF Gt(EntryTime(rel[i]), EntryTime(latest)) THEN rel[i] ELSE latest)

LatestBlocked(rel) == ReduceLatest(rel, 2, rel[1])

FindAcc(accs, accommodationId) ==
  LET hits == SelectSeq(accs, LAMBDA a : a.id = accommodationId)
  IN IF hits = <<>> THEN NULL ELSE Some(hits[1])

\* calculateAvailableRooms up to its await of fetchBookedRooms: the
\* accommodation's total, the entry that governs and its rooms value.
CalcPrefix(accs, list, accommodationId, dateStr) ==
  LET a == FindAcc(accs, accommodationId)
      rel == RelevantBlocked(list, accommodationId, dateStr)
      latest == IF rel = <<>> THEN NULL ELSE Some(LatestBlocked(rel))
  IN [found |-> a # NULL,
      total |-> IF a = NULL THEN 0 ELSE Get(a).rooms,
      governing |-> latest,
      delta |-> IF latest = NULL THEN NULL ELSE Get(latest).rooms]

\* Two variants of Available the claims are tested against: one that
\* subtracts the rooms value, one that does not clamp at 0.
AvailableSubtracting(totalRooms, blockedRoomsValue, bookedRooms) ==
  IF blockedRoomsValue = NULL
  THEN Max0(totalRooms - bookedRooms)
  ELSE Max0(totalRooms - Get(blockedRoomsValue) - bookedRooms)

AvailableUnclamped(totalRooms, blockedRoomsValue, bookedRooms) ==
  IF blockedRoomsValue = NULL
  THEN totalRooms - bookedRooms
  ELSE totalRooms + Get(blockedRoomsValue) - bookedRooms

\* calculateAvailableRooms after the await
Available(totalRooms, blockedRoomsValue, bookedRooms) ==
  IF blockedRoomsValue = NULL
  THEN Max0(totalRooms - bookedRooms)
  ELSE Max0(totalRooms + Get(blockedRoomsValue) - bookedRooms)

getDefaultPrices(accs, accommodationId) ==
  LET a == IF accommodationId = NULL THEN NULL
           ELSE FindAcc(accs, Get(accommodationId))
  IN IF a = NULL THEN [adult |-> NULL, child |-> NULL]
     ELSE [adult |-> OrNull(Get(a).adult), child |-> OrNull(Get(a).child)]

\* getBlockStatusForDate(day).isFullyBlocked
IsFullyBlocked(c, day) ==
  /\ c.selectedAccommodationId # NULL
  /\ \E i \in 1..Len(c.blockedDates) :
       /\ c.blockedDates[i].blocked_date = day
       /\ c.blockedDates[i].accommodation_id = Get(c.selectedAccommodationId)
       /\ c.blockedDates[i].rooms = NULL

\* ------------------------------------------------------- Calendar: state
\* The component's useState cells right after mount: both list fetches are
\* in flight and fetchBlockedDates has set loading.
CalMounted ==
  [selectedDay |-> NULL, blockedDates |-> <<>>, accommodations |-> <<>>,
   reason |-> "", selectedAccommodationId |-> NULL, selectedRoom |-> Some(0),
   showForm |-> FALSE, loading |-> TRUE, isDeleting |-> FALSE, error |-> "",
   success |-> "", editingDate |-> NULL, adultPrice |-> NULL,
   childPrice |-> NULL, availableRooms |-> NULL,
   isFetchingBookedRooms |-> FALSE, isProcessingDayClick |-> FALSE,
   activeSection |-> "price", isBlockAll |-> FALSE,
   accommodationRooms |-> NULL, blockedRoomForDate |-> NULL,
   lastClickedDate |-> NULL]

\* A network call in flight with what its continuation closes over: the
\* caller, the (accommodation, date) asked about, the blockedDates and
\* accommodations of the render that started it, and the values
\* calculateAvailableRooms computed before its await.
Cont(op, caller, acc, day, list, accs, total, delta, governing) ==
  [op |-> op, caller |-> caller, acc |-> acc, day |-> day, list |-> list,
   accs |-> accs, total |-> total, delta |-> delta, governing |-> governing]

ListCont(op) == Cont(op, "mount", NULL, NULL, <<>>, <<>>, 0, NULL, NULL)

Await(bag, k) == bag (+) SetToBag({k})
Done(bag, k) == bag (-) SetToBag({k})

\* What each caller of calculateAvailableRooms does with the value returned
FinishCalc(c, caller, available) ==
  IF caller = "dayClick"
  THEN [c EXCEPT !.selectedRoom = available, !.availableRooms = available,
                 !.isProcessingDayClick = FALSE]
  ELSE IF caller = "accChange"
  THEN [c EXCEPT !.availableRooms = available, !.selectedRoom = available]
  ELSE [c EXCEPT !.availableRooms = available]

\* A call of calculateAvailableRooms from state c: it returns null at once
\* when the accommodation is unknown, else it sets accommodationRooms and
\* blockedRoomForDate and awaits fetchBookedRooms.
StartCalc(c, caller, accommodationId, dateStr, list, accs) ==
  LET p == CalcPrefix(accs, list, accommodationId, dateStr)
  IN IF ~p.found
     THEN [cal |-> FinishCalc(c, caller, NULL), cont |-> NULL]
     ELSE [cal |-> [c EXCEPT
                      !.accommodationRooms = OrNull(p.total),
                      !.blockedRoomForDate =
                         IF p.delta = NULL THEN @ ELSE OrNull(Get(p.delta)),
                      !.isFetchingBookedRooms = TRUE],
           cont |-> Some(Cont("occupancy", caller, Some(accommodationId),
                              Some(dateStr), list, accs, p.total, p.delta,
                              p.governing))]

AwaitOpt(bag, k) == IF k = NULL THEN bag ELSE Await(bag, Get(k))
\* A handler starts network calls only while fewer than MaxInFlight are in
\* flight; the calls a response goes on to make are always made.
CanAwait == BagCardinality(pending) < MaxInFlight

\* ----------------------------------------------------- Calendar: actions
\* fetchBlockedDates answers
FetchBlockedDatesResponse ==
  /\ mounted = "Calendar"
  /\ \E k \in BagToSet(pending) :
       /\ k.op = "blockedDates"
       /\ pending' = Done(pending, k)
       /\ \E ok \in BOOLEAN :
            cal' = IF ok
                   THEN [cal EXCEPT !.blockedDates = store, !.loading = FALSE]
                   ELSE [cal EXCEPT !.error = "Error connecting to server",
                                    !.loading = FALSE]
  /\ resolved' = NULL
  /\ UNCHANGED <<mounted, env, bk, submitted>>
  /\ answered' = NULL

\* The accommodations list as the Calendar reads it
CalAccommodations ==
  [i \in 1..Cardinality(AccIds) |->
     [id |-> accDb[i].id, rooms |-> accDb[i].rooms,
      adult |-> accDb[i].adult, child |-> accDb[i].child]]

\* fetchAccommodations answers
FetchAccommodationsResponse ==
  /\ mounted = "Calendar"
  /\ \E k \in BagToSet(pending) :
       /\ k.op = "accommodations"
       /\ pending' = Done(pending, k)
       /\ \E ok \in BOOLEAN :
            cal' = IF ok
                   THEN [cal EXCEPT !.accommodations = CalAccommodations]
                   ELSE [cal EXCEPT !.error = "Failed to load accommodations"]
  /\ resolved' = NULL
  /\ UNCHANGED <<mounted, env, bk, submitted>>
  /\ answered' = NULL

\* A variant of HandleDayClick for a day button that a FullyBlocked date
\* does not disable
HandleDayClickAnyCell(day) ==
  /\ mounted = "Calendar"
  /\ ~cal.loading /\ ~IsPast(day)
  /\ ~cal.isProcessingDayClick
  /\ ~(cal.lastClickedDate = Some(day) /\ cal.showForm)
  /\ CanAwait
  /\ LET c0 == [cal EXCEPT !.lastClickedDate = Some(day),
                           !.availableRooms = NULL,
                           !.selectedRoom = Some(0),
                           !.isBlockAll = FALSE,
                           !.isProcessingDayClick = TRUE,
                           !.showForm = TRUE,
                           !.activeSection = "price",
                           !.selectedDay = Some(day)]
         c1 == IF cal.selectedDay # Some(day)
               THEN [c0 EXCEPT !.editingDate = NULL, !.reason = "",
                               !.adultPrice = NULL, !.childPrice = NULL]
               ELSE c0
         sel == cal.selectedAccommodationId
         hits == IF sel = NULL THEN <<>>
                 ELSE RelevantBlocked(cal.blockedDates, Get(sel), day)
     IN IF hits # <<>>
        THEN LET b == hits[1]
                 c2 == [c1 EXCEPT !.editingDate = Some(b),
                                  !.reason = b.reason,
                                  !.adultPrice = Truthy(b.adult_price),
                                  !.childPrice = Truthy(b.child_price),
                                  !.isBlockAll = (b.rooms = NULL)]
                 r == StartCalc(c2, "dayClick", b.accommodation_id, day,
                                cal.blockedDates, cal.accommodations)
             IN /\ cal' = r.cal
                /\ pending' = AwaitOpt(pending, r.cont)
        ELSE IF sel # NULL
        THEN /\ cal' = c1
             /\ pending' = Await(pending,
                  Cont("prices", "dayClick", sel, Some(day), cal.blockedDates,
                       cal.accommodations, 0, NULL, NULL))
        ELSE /\ cal' = [c1 EXCEPT !.isProcessingDayClick = FALSE]
             /\ pending' = pending
  /\ resolved' = NULL
  /\ UNCHANGED <<mounted, env, bk, submitted>>
  /\ answered' = NULL

\* A click on an enabled day button
HandleDayClick(day) ==
  /\ mounted = "Calendar"
  /\ ~cal.loading /\ ~IsPast(day) /\ ~IsFullyBlocked(cal, day)
  /\ ~cal.isProcessingDayClick
  /\ ~(cal.lastClickedDate = Some(day) /\ cal.showForm)
  /\ CanAwait
  /\ LET c0 == [cal EXCEPT !.lastClickedDate = Some(day),
                           !.availableRooms = NULL,
                           !.selectedRoom = Some(0),
                           !.isBlockAll = FALSE,
                           !.isProcessingDayClick = TRUE,
                           !.showForm = TRUE,
                           !.activeSection = "price",
                           !.selectedDay = Some(day)]
         c1 == IF cal.selectedDay # Some(day)
               THEN [c0 EXCEPT !.editingDate = NULL, !.reason = "",
                               !.adultPrice = NULL, !.childPrice = NULL]
               ELSE c0
         sel == cal.selectedAccommodationId
         hits == IF sel = NULL THEN <<>>
                 ELSE RelevantBlocked(cal.blockedDates, Get(sel), day)
     IN IF hits # <<>>
        THEN LET b == hits[1]
                 c2 == [c1 EXCEPT !.editingDate = Some(b),
                                  !.reason = b.reason,
                                  !.adultPrice = Truthy(b.adult_price),
                                  !.childPrice = Truthy(b.child_price),
                                  !.isBlockAll = (b.rooms = NULL)]
                 r == StartCalc(c2, "dayClick", b.accommodation_id, day,
                                cal.blockedDates, cal.accommodations)
             IN /\ cal' = r.cal
                /\ pending' = AwaitOpt(pending, r.cont)
        ELSE IF sel # NULL
        THEN /\ cal' = c1
             /\ pending' = Await(pending,
                  Cont("prices", "dayClick", sel, Some(day), cal.blockedDates,
                       cal.accommodations, 0, NULL, NULL))
        ELSE /\ cal' = [c1 EXCEPT !.isProcessingDayClick = FALSE]
             /\ pending' = pending
  /\ resolved' = NULL
  /\ UNCHANGED <<mounted, env, bk, submitted>>
  /\ answered' = NULL

\* The accommodation select of the form changes to id (NULL: the empty option)
HandleAccommodationChange(id) ==
  /\ mounted = "Calendar"
  /\ cal.showForm /\ ~cal.loading /\ ~cal.isFetchingBookedRooms
  /\ cal.editingDate = NULL
  /\ id # cal.selectedAccommodationId
  /\ id # NULL => FindAcc(cal.accommodations, Get(id)) # NULL
  /\ CanAwait
  /\ LET c1 == [cal EXCEPT !.selectedAccommodationId = id,
                           !.selectedRoom = NULL, !.isBlockAll = FALSE]
         d == getDefaultPrices(cal.accommodations, id)
     IN IF id # NULL /\ cal.selectedDay # NULL
        THEN /\ cal' = c1
             /\ pending' = Await(pending,
                  Cont("prices", "accChange", id, cal.selectedDay,
                       cal.blockedDates, cal.accommodations, 0, NULL, NULL))
        ELSE IF id # NULL
        THEN /\ cal' = [c1 EXCEPT !.adultPrice = Truthy(d.adult),
                                  !.childPrice = Truthy(d.child),
                                  !.availableRooms = NULL]
             /\ pending' = pending
        ELSE /\ cal' = [c1 EXCEPT !.adultPrice = NULL, !.childPrice = NULL,
                                  !.availableRooms = NULL]
             /\ pending' = pending
  /\ resolved' = NULL
  /\ UNCHANGED <<mounted, env, bk, submitted>>
  /\ answered' = NULL

\* fetchBlockedDatePrices: the first row of the answer for (date, accommodation)
fetchBlockedDatePrices(data, dateStr, accommodationId) ==
  LET hits == RelevantBlocked(data, accommodationId, dateStr)
  IN IF hits = <<>> THEN NULL
     ELSE Some([adult |-> hits[1].adult_price, child |-> hits[1].child_price])

\* getUpdatedPrices answers: the prices are set and calculateAvailableRooms
\* is called with the blockedDates and accommodations of the handler's render
FetchBlockedDatePricesResponse ==
  /\ mounted = "Calendar"
  /\ \E k \in BagToSet(pending) :
       /\ k.op = "prices"
       /\ \E ok \in BOOLEAN :
            LET found == IF ok
                         THEN fetchBlockedDatePrices(store, Get(k.day), Get(k.acc))
                         ELSE NULL
                updated == IF found # NULL THEN Get(found)
                           ELSE getDefaultPrices(k.accs, k.acc)
                c1 == [cal EXCEPT !.adultPrice = Truthy(updated.adult),
                                  !.childPrice = Truthy(updated.child)]
                r == StartCalc(c1, k.caller, Get(k.acc), Get(k.day), k.list,
                               k.accs)
            IN /\ cal' = r.cal
               /\ pending' = AwaitOpt(Done(pending, k), r.cont)
               /\ answered' = Some([op |-> k.op, ok |-> ok, acc |-> k.acc,
                                    day |-> k.day, accs |-> k.accs,
                                    prices |-> updated])
  /\ resolved' = NULL
  /\ UNCHANGED <<mounted, env, bk, submitted>>

\* A variant of FetchBookedRoomsResponse the claims are tested against:
\* fetchBookedRooms without its catch, so that a failed read is thrown to
\* the caller, which reports it and stores no value.
FetchBookedRoomsResponseThrowing ==
  /\ mounted = "Calendar"
  /\ \E k \in BagToSet(pending) :
       /\ k.op = "occupancy"
       /\ \E answer \in {NULL} \cup {Some(n) : n \in 0..MaxBooked} :
            LET bookedRooms == OrZero(answer)
                available == Available(k.total, k.delta, bookedRooms)
            IN /\ cal' = IF answer = NULL
                          THEN [cal EXCEPT !.isFetchingBookedRooms = FALSE,
                                           !.isProcessingDayClick = FALSE,
                                           !.error = "Failed to load date information"]
                          ELSE FinishCalc([cal EXCEPT !.isFetchingBookedRooms = FALSE],
                                          k.caller, Some(available))
               /\ resolved' = Some([acc |-> Get(k.acc), day |-> Get(k.day),
                                    list |-> k.list, total |-> k.total,
                                    governing |-> k.governing,
                                    booked |-> bookedRooms,
                                    available |-> available])
               /\ answered' = Some([op |-> k.op, ok |-> answer # NULL,
                                    error |-> cal.error])
       /\ pending' = Done(pending, k)
  /\ UNCHANGED <<mounted, env, bk, submitted>>

\* fetchBookedRooms answers (NULL: the read failed, counted as 0 booked);
\* calculateAvailableRooms returns and its caller stores the value
FetchBookedRoomsResponse ==
  /\ mounted = "Calendar"
  /\ \E k \in BagToSet(pending) :
       /\ k.op = "occupancy"
       /\ \E answer \in {NULL} \cup {Some(n) : n \in 0..MaxBooked} :
            LET bookedRooms == OrZero(answer)
                available == Available(k.total, k.delta, bookedRooms)
            IN /\ cal' = FinishCalc([cal EXCEPT !.isFetchingBookedRooms = FALSE],
                                    k.caller, Some(available))
               /\ resolved' = Some([acc |-> Get(k.acc), day |-> Get(k.day),
                                    list |-> k.list, total |-> k.total,
                                    governing |-> k.governing,
                                    booked |-> bookedRooms,
                                    available |-> available])
               /\ answered' = Some([op |-> k.op, ok |-> answer # NULL,
                                    error |-> cal.error])
       /\ pending' = Done(pending, k)
  /\ UNCHANGED <<mounted, env, bk, submitted>>

\* The edit button of row i of the blocked-dates list
EditBlockedDate(i) ==
  /\ mounted = "Calendar"
  /\ ~cal.loading /\ ~cal.isDeleting /\ ~cal.isFetchingBookedRooms
  /\ cal.selectedAccommodationId # NULL
  /\ i \in 1..Len(cal.blockedDates)
  /\ cal.blockedDates[i].accommodation_id = Get(cal.selectedAccommodationId)
  /\ CanAwait
  /\ LET date == cal.blockedDates[i]
         c1 == [cal EXCEPT !.editingDate = Some(date),
                           !.reason = date.reason,
                           !.selectedAccommodationId = Some(date.accommodation_id),
                           !.selectedRoom = Truthy(date.rooms),
                           !.isBlockAll = (date.rooms = NULL),
                           !.showForm = TRUE,
                           !.selectedDay = Some(date.blocked_date),
                           !.activeSection = "price"]
         r == StartCalc(c1, "edit", date.accommodation_id, date.blocked_date,
                        cal.blockedDates, cal.accommodations)
     IN /\ cal' = r.cal
        /\ pending' = AwaitOpt(pending, r.cont)
  /\ resolved' = NULL
  /\ UNCHANGED <<mounted, env, bk, submitted>>
  /\ answered' = NULL

\* resetForm, from the Cancel button
ResetForm ==
  /\ mounted = "Calendar"
  /\ cal.showForm /\ ~cal.loading /\ ~cal.isFetchingBookedRooms
  /\ cal' = [cal EXCEPT !.showForm = FALSE, !.selectedDay = NULL,
                        !.reason = "", !.selectedRoom = NULL,
                        !.editingDate = NULL, !.adultPrice = NULL,
                        !.childPrice = NULL, !.availableRooms = NULL,
                        !.activeSection = "price", !.isBlockAll = FALSE,
                        !.lastClickedDate = NULL]
  /\ resolved' = NULL
  /\ UNCHANGED <<mounted, env, bk, pending, submitted>>
  /\ answered' = NULL

\* The five-second timer that clears the alerts
ClearAlerts ==
  /\ mounted = "Calendar"
  /\ cal.error # "" \/ cal.success # ""
  /\ cal' = [cal EXCEPT !.error = "", !.success = ""]
  /\ resolved' = NULL
  /\ UNCHANGED <<mounted, env, bk, pending, submitted>>
  /\ answered' = NULL


\* calculateAvailableRooms(accommodationId, dateStr) called with the lists of
\* the current render, its value stored in availableRooms
CalculateAvailableRooms(accommodationId, dateStr) ==
  /\ mounted = "Calendar"
  /\ pending = EmptyBag
  /\ LET r == StartCalc(cal, "edit", accommodationId, dateStr,
                        cal.blockedDates, cal.accommodations)
     IN /\ cal' = r.cal
        /\ pending' = AwaitOpt(pending, r.cont)
  /\ resolved' = NULL
  /\ UNCHANGED <<mounted, env, bk, submitted>>
  /\ answered' = NULL

\* ------------------------------------------------ Calendar: the save form
\* The tab buttons of the form
SetActiveSection(section) ==
  /\ mounted = "Calendar"
  /\ cal.showForm
  /\ section # cal.activeSection
  /\ cal' = [cal EXCEPT !.activeSection = section]
  /\ resolved' = NULL
  /\ submitted' = NULL
  /\ answered' = NULL
  /\ UNCHANGED <<mounted, env, bk, pending>>

\* The price inputs of the price section: '' (NULL) or the number typed
SetPrice(name, value) ==
  /\ mounted = "Calendar"
  /\ cal.showForm /\ cal.activeSection = "price"
  /\ ~cal.loading /\ ~cal.isFetchingBookedRooms
  /\ cal' = IF name = "adult" THEN [cal EXCEPT !.adultPrice = value]
            ELSE [cal EXCEPT !.childPrice = value]
  /\ cal' # cal
  /\ resolved' = NULL
  /\ submitted' = NULL
  /\ answered' = NULL
  /\ UNCHANGED <<mounted, env, bk, pending>>

\* The "Block All Rooms" checkbox of the inventory section
ToggleBlockAll ==
  /\ mounted = "Calendar"
  /\ cal.showForm /\ cal.activeSection = "inventory"
  /\ cal.selectedAccommodationId # NULL
  /\ cal' = [cal EXCEPT !.isBlockAll = ~cal.isBlockAll, !.selectedRoom = Some(0)]
  /\ resolved' = NULL
  /\ submitted' = NULL
  /\ answered' = NULL
  /\ UNCHANGED <<mounted, env, bk, pending>>

\* The - and + buttons of the room counter (step is -1 or 1)
StepSelectedRoom(step) ==
  /\ mounted = "Calendar"
  /\ cal.showForm /\ cal.activeSection = "inventory"
  /\ cal.selectedAccommodationId # NULL
  /\ ~cal.isBlockAll
  /\ IF step < 0
     THEN /\ cal.selectedRoom # NULL /\ OrZero(cal.selectedRoom) > 0
          /\ cal' = [cal EXCEPT !.selectedRoom =
                       Some(Max0(OrZero(cal.selectedRoom) - 1))]
     ELSE /\ OrZero(cal.selectedRoom) < OrZero(cal.accommodationRooms)
          /\ cal' = [cal EXCEPT !.selectedRoom =
                       Some(IF OrZero(cal.accommodationRooms)
                                 < OrZero(cal.selectedRoom) + 1
                            THEN OrZero(cal.accommodationRooms)
                            ELSE OrZero(cal.selectedRoom) + 1)]
  /\ resolved' = NULL
  /\ submitted' = NULL
  /\ answered' = NULL
  /\ UNCHANGED <<mounted, env, bk, pending>>

\* validateForm and the date check that follows it: the message set, "" if
\* the form may be saved
validateForm(c) ==
  IF c.selectedAccommodationId = NULL THEN "Please select an accommodation"
  ELSE IF c.activeSection = "price" /\ c.adultPrice = NULL /\ c.childPrice = NULL
  THEN "Please set at least one price"
  ELSE IF c.adultPrice # NULL /\ Get(c.adultPrice) < 0
  THEN "Adult price cannot be negative"
  ELSE IF c.childPrice # NULL /\ Get(c.childPrice) < 0
  THEN "Child price cannot be negative"
  ELSE IF c.selectedDay = NULL /\ c.editingDate = NULL
  THEN "Please select a date"
  ELSE ""

\* The row handleSaveBlockedDates finds in the blockedDates of its render
\* when no row is being edited
ExistingEntry(c) ==
  IF c.editingDate # NULL \/ c.selectedDay = NULL THEN NULL
  ELSE LET hits == RelevantBlocked(c.blockedDates,
                                   Get(c.selectedAccommodationId),
                                   Get(c.selectedDay))
       IN IF hits = <<>> THEN NULL ELSE Some(hits[1])

\* The request handleSaveBlockedDates builds from the cells of its render.
\* isUpdate is true for a row being edited and for a row found at save time;
\* `isUpdate && editingDate` is true for a row being edited only, since
\* setEditingDate(existingEntry) does not change the editingDate the handler
\* closed over.
SaveRequest(c) ==
  LET existingEntry == ExistingEntry(c)
      isUpdate == c.editingDate # NULL \/ existingEntry # NULL
      blockedDateId == IF c.editingDate # NULL THEN Some(Get(c.editingDate).id)
                       ELSE IF existingEntry # NULL THEN Some(Get(existingEntry).id)
                       ELSE NULL
      roomValue == OrZero(c.selectedRoom) - OrZero(c.availableRooms)
      defaultPrices == getDefaultPrices(c.accommodations, c.selectedAccommodationId)
  IN [method |-> IF isUpdate THEN "put" ELSE "post",
      id |-> blockedDateId,
      found |-> existingEntry,
      payload |->
        [dates |-> <<IF c.editingDate # NULL THEN Get(c.editingDate).blocked_date
                     ELSE Get(c.selectedDay)>>,
         reason |-> c.reason,
         accommodation_id |-> c.selectedAccommodationId,
         adult_price |->
           IF c.activeSection = "price" THEN c.adultPrice
           ELSE IF isUpdate /\ c.editingDate # NULL
           THEN Get(c.editingDate).adult_price
           ELSE defaultPrices.adult,
         child_price |->
           IF c.activeSection = "price" THEN c.childPrice
           ELSE IF isUpdate /\ c.editingDate # NULL
           THEN Get(c.editingDate).child_price
           ELSE defaultPrices.child,
         room_number |->
           IF c.activeSection = "price"
           THEN IF isUpdate /\ c.editingDate # NULL
                THEN Get(c.editingDate).rooms ELSE NULL
           ELSE IF c.isBlockAll THEN NULL
           ELSE IF isUpdate THEN Some(OrZero(c.blockedRoomForDate) + roomValue)
           ELSE Some(roomValue)]]

\* The Submit / Update button of the form.  A session issues at most
\* MaxSaves saves and removals.
HandleSaveBlockedDates ==
  /\ mounted = "Calendar"
  /\ cal.showForm /\ ~cal.loading /\ ~cal.isFetchingBookedRooms
  /\ LET message == validateForm(cal)
     IN IF message # ""
        THEN /\ cal' = [cal EXCEPT !.error = message]
             /\ pending' = pending
             /\ writes' = writes
             /\ submitted' = Some([view |-> "Calendar", sent |-> FALSE])
        ELSE LET request == SaveRequest(cal)
             IN /\ CanAwait
                /\ writes < MaxSaves
                /\ writes' = writes + 1
                /\ cal' = [cal EXCEPT !.loading = TRUE,
                                      !.editingDate =
                                         IF request.found # NULL
                                         THEN request.found ELSE @]
                /\ pending' = Await(pending,
                                    [op |-> "save", method |-> request.method,
                                     id |-> request.id,
                                     payload |-> request.payload])
                /\ submitted' =
                     Some([view |-> "Calendar", sent |-> TRUE,
                           method |-> request.method, id |-> request.id,
                           payload |-> request.payload,
                           section |-> cal.activeSection,
                           isBlockAll |-> cal.isBlockAll,
                           selectedRoom |-> cal.selectedRoom,
                           availableRooms |-> cal.availableRooms,
                           list |-> cal.blockedDates,
                           accs |-> cal.accommodations])
  /\ resolved' = NULL
  /\ answered' = NULL
  /\ UNCHANGED <<mounted, accDb, store, nextId, coupons, lenientDates, bk>>

\* The backend's writes on the blocked-dates table: a POST appends a row for
\* the date of the payload whatever the table holds, a PUT replaces the
\* fields of the row with the id, a DELETE removes it.
HasRow(rows, id) == \E i \in 1..Len(rows) : rows[i].id = id

BackendCreate(rows, id, payload) ==
  Append(rows,
         [id |-> id, accommodation_id |-> Get(payload.accommodation_id),
          blocked_date |-> payload.dates[1], rooms |-> payload.room_number,
          adult_price |-> payload.adult_price,
          child_price |-> payload.child_price, reason |-> payload.reason,
          updated_at |-> NULL, created_at |-> Local(10),
          rooms_blocked |-> NULL])

BackendUpdate(rows, id, payload) ==
  [i \in 1..Len(rows) |->
     IF rows[i].id = id
     THEN [rows[i] EXCEPT !.rooms = payload.room_number,
                          !.adult_price = payload.adult_price,
                          !.child_price = payload.child_price,
                          !.reason = payload.reason]
     ELSE rows[i]]

BackendDelete(rows, id) == SelectSeq(rows, LAMBDA r : r.id # id)

\* resetForm as handleSaveBlockedDates calls it
ResetFormCells(c) ==
  [c EXCEPT !.showForm = FALSE, !.selectedDay = NULL, !.reason = "",
            !.selectedRoom = NULL, !.editingDate = NULL, !.adultPrice = NULL,
            !.childPrice = NULL, !.availableRooms = NULL,
            !.activeSection = "price", !.isBlockAll = FALSE,
            !.lastClickedDate = NULL]

\* The POST or PUT of handleSaveBlockedDates answers.  "ok": the write is
\* done, the form is reset and fetchBlockedDates is called; "refused": the
\* answer has success false; "error": the request failed.  A PUT of a row
\* the table no longer holds fails.
SaveBlockedDatesResponse ==
  /\ mounted = "Calendar"
  /\ \E k \in BagToSet(pending) :
       /\ k.op = "save"
       /\ \E outcome \in {"ok", "refused", "error"} :
            /\ answered' = Some([op |-> k.op, ok |-> outcome = "ok"])
            /\ IF outcome = "ok"
               THEN /\ k.method = "put" => HasRow(store, Get(k.id))
                    /\ store' = IF k.method = "put"
                                THEN BackendUpdate(store, Get(k.id), k.payload)
                                ELSE BackendCreate(store, nextId, k.payload)
                    /\ nextId' = IF k.method = "put" THEN nextId ELSE nextId + 1
                    /\ cal' = ResetFormCells(
                                [cal EXCEPT !.success =
                                   IF k.method = "put" THEN "Updated successfully"
                                   ELSE "Saved successfully"])
                    /\ pending' = Await(Done(pending, k), ListCont("blockedDates"))
               ELSE /\ cal' = [cal EXCEPT !.loading = FALSE,
                                          !.error = IF outcome = "refused"
                                                    THEN "Failed to save"
                                                    ELSE "Error connecting to server"]
                    /\ pending' = Done(pending, k)
                    /\ UNCHANGED <<store, nextId>>
  /\ resolved' = NULL
  /\ submitted' = NULL
  /\ UNCHANGED <<mounted, accDb, writes, coupons, lenientDates, bk>>

\* The remove button of row i of the blocked-dates list, confirmed
HandleRemoveBlockedDate(i) ==
  /\ mounted = "Calendar"
  /\ ~cal.loading /\ ~cal.isDeleting /\ ~cal.isFetchingBookedRooms
  /\ cal.selectedAccommodationId # NULL
  /\ i \in 1..Len(cal.blockedDates)
  /\ cal.blockedDates[i].accommodation_id = Get(cal.selectedAccommodationId)
  /\ CanAwait
  /\ writes < MaxSaves
  /\ writes' = writes + 1
  /\ cal' = [cal EXCEPT !.isDeleting = TRUE]
  /\ pending' = Await(pending, [op |-> "remove", id |-> cal.blockedDates[i].id])
  /\ resolved' = NULL
  /\ submitted' = NULL
  /\ answered' = NULL
  /\ UNCHANGED <<mounted, accDb, store, nextId, coupons, lenientDates, bk>>

\* The DELETE answers.  On success fetchBlockedDates is called; isDeleting
\* is cleared when that call returns, and until then loading disables every
\* button isDeleting disables, so it is cleared here.
RemoveBlockedDateResponse ==
  /\ mounted = "Calendar"
  /\ \E k \in BagToSet(pending) :
       /\ k.op = "remove"
       /\ \E outcome \in {"ok", "refused", "error"} :
            /\ answered' = Some([op |-> k.op, ok |-> outcome = "ok"])
            /\ IF outcome = "ok"
               THEN /\ store' = BackendDelete(store, k.id)
                    /\ cal' = [cal EXCEPT !.isDeleting = FALSE, !.loading = TRUE,
                                          !.success = "Date unblocked successfully"]
                    /\ pending' = Await(Done(pending, k), ListCont("blockedDates"))
               ELSE /\ cal' = [cal EXCEPT !.isDeleting = FALSE,
                                          !.error = IF outcome = "refused"
                                                    THEN "Failed to remove blocked date"
                                                    ELSE "Error connecting to server"]
                    /\ pending' = Done(pending, k)
                    /\ store' = store
  /\ resolved' = NULL
  /\ submitted' = NULL
  /\ UNCHANGED <<mounted, accDb, nextId, writes, coupons, lenientDates, bk>>

\* ------------------------------------------- CreateBooking: pure helpers
\* A number field of the form holds '' (NULL) or digits; parseInt of it is NaN
\* or the number.  + and the comparisons on numbers that may be NaN:
Add(a, b) == IF a = NaN \/ b = NaN THEN NaN ELSE Some(Get(a) + Get(b))
Lt(a, b) == a # NaN /\ b # NaN /\ Get(a) < Get(b)
StrictNeq(a, b) == a = NaN \/ b = NaN \/ Get(a) # Get(b)
Min(a, b) == IF a <= b THEN a ELSE b

\* Amounts are counted in hundredths of a rupee, which is what toFixed(2)
\* prints and parseFloat reads back; prices and coupon amounts are rupees.
Hundredths(rupees) == rupees * 100

\* The coupons table of the backend.  A code is its sequence of characters.
CouponCatalog ==
  << [id |-> 1, code |-> <<"T", "E", "N">>, discount |-> 10,
      discountType |-> "percentage", minAmount |-> NULL,
      maxDiscount |-> Some(1), active |-> TRUE, accommodationType |-> Some("All")],
     [id |-> 2, code |-> <<"F", "O", "U", "R">>, discount |-> 4,
      discountType |-> "fixed", minAmount |-> Some(6),
      maxDiscount |-> NULL, active |-> TRUE, accommodationType |-> Some("Villa")],
     [id |-> 3, code |-> <<"O", "L", "D">>, discount |-> 50,
      discountType |-> "percentage", minAmount |-> NULL,
      maxDiscount |-> NULL, active |-> FALSE, accommodationType |-> NULL] >>

toLowerCase(str) ==
  [i \in 1..Len(str) |->
     CASE str[i] = "T" -> "t" [] str[i] = "E" -> "e" [] str[i] = "N" -> "n"
       [] str[i] = "F" -> "f" [] str[i] = "O" -> "o" [] str[i] = "U" -> "u"
       [] str[i] = "R" -> "r" [] str[i] = "L" -> "l" [] str[i] = "D" -> "d"
       [] OTHER -> str[i]]

\* String.prototype.includes
Includes(str, term) ==
  \E i \in 0..Len(str) :
    /\ i + Len(term) <= Len(str)
    /\ \A j \in 1..Len(term) : str[i + j] = term[j]

\* new Date(str).getTime() of a date-input value "yyyy-mm-dd": midnight UTC of
\* that day, in milliseconds counted from today's midnight UTC
MsPerDay == 1000 * 60 * 60 * 24
NewDate(str) == Get(str) * MsPerDay
MathAbs(n) == IF n < 0 THEN 0 - n ELSE n
\* Math.ceil(n / d) for n >= 0 and d > 0
MathCeil(n, d) == (n + d - 1) \div d

\* A variant of calculateNumberOfDays that counts the days of the stay, the
\* day of departure included
calculateNumberOfDaysInclusive(checkIn, checkOut) ==
  IF checkIn = NULL \/ checkOut = NULL THEN 0
  ELSE IF NewDate(checkOut) <= NewDate(checkIn) THEN 0
  ELSE MathCeil(MathAbs(NewDate(checkOut) - NewDate(checkIn)), MsPerDay) + 1

\* The number of nights between two date-input values
calculateNumberOfDays(checkIn, checkOut) ==
  IF checkIn = NULL \/ checkOut = NULL THEN 0
  ELSE LET startDate == NewDate(checkIn)
           endDate == NewDate(checkOut)
           diffTime == MathAbs(endDate - startDate)
       IN IF endDate <= startDate THEN 0
          ELSE MathCeil(diffTime, MsPerDay)

\* A variant of calculateDiscount that returns the difference as it is
calculateDiscountUnclamped(totalAmount, coupon) ==
  IF coupon = NULL THEN totalAmount
  ELSE LET c == Get(coupon)
           minAmount == IF c.minAmount = NULL THEN 0
                        ELSE Hundredths(Get(c.minAmount))
           discountValue == (totalAmount * c.discount) \div 100
           finalDiscount == IF c.maxDiscount = NULL THEN discountValue
                            ELSE Min(discountValue, Hundredths(Get(c.maxDiscount)))
       IN IF totalAmount < minAmount THEN totalAmount
          ELSE IF c.discountType = "percentage"
          THEN totalAmount - finalDiscount
          ELSE totalAmount - Hundredths(c.discount)

calculateDiscount(totalAmount, coupon) ==
  IF coupon = NULL THEN totalAmount
  ELSE LET c == Get(coupon)
           minAmount == IF c.minAmount = NULL THEN 0
                        ELSE Hundredths(Get(c.minAmount))
           discountValue == (totalAmount * c.discount) \div 100
           finalDiscount == IF c.maxDiscount = NULL THEN discountValue
                            ELSE Min(discountValue, Hundredths(Get(c.maxDiscount)))
       IN IF totalAmount < minAmount THEN totalAmount
          ELSE IF c.discountType = "percentage"
          THEN Max0(totalAmount - finalDiscount)
          ELSE Max0(totalAmount - Hundredths(c.discount))

IsVilla(sel) == sel # NULL /\ Get(sel).type = "Villa"

\* A variant of BaseTotal that charges a villa per adult
BaseTotalVillaPerAdult(sel, adults, children, extra_adults, numberOfDays) ==
  IF sel.type = "Villa"
  THEN (sel.adultPrice * adults + OrZero(sel.RatePerPerson) * extra_adults)
       * numberOfDays
  ELSE (sel.adultPrice * adults + sel.childPrice * children) * numberOfDays

\* baseTotal of the price effect, in rupees
BaseTotal(sel, adults, children, extra_adults, numberOfDays) ==
  IF sel.type = "Villa"
  THEN (sel.adultPrice + OrZero(sel.RatePerPerson) * extra_adults) * numberOfDays
  ELSE (sel.adultPrice * adults + sel.childPrice * children) * numberOfDays

\* The price effect: total_amount and discounted_amount from the form
PriceEffect(b) ==
  LET f == b.formData
      numberOfDays == calculateNumberOfDays(f.check_in, f.check_out)
      baseTotal == Hundredths(BaseTotal(Get(b.selectedAccommodation),
                                        OrZero(f.adults), OrZero(f.children),
                                        OrZero(f.extra_adults), numberOfDays))
  IN IF b.selectedAccommodation = NULL
     THEN [b EXCEPT !.formData.total_amount = NULL,
                    !.formData.discounted_amount = NULL]
     ELSE IF numberOfDays = 0
     THEN [b EXCEPT !.formData.total_amount = Some(0),
                    !.formData.discounted_amount = Some(0)]
     ELSE [b EXCEPT !.formData.total_amount = Some(baseTotal),
                    !.formData.discounted_amount =
                       Some(calculateDiscount(baseTotal, b.appliedCoupon))]

\* The accommodation object fetchAccommodationDetails builds from the answer
AccommodationDetails(a) ==
  [id |-> a.id, name |-> a.name, available_rooms |-> a.rooms,
   adultPrice |-> a.adult, childPrice |-> a.child,
   capacity |-> IF a.capacity = 0 THEN 4 ELSE a.capacity,
   type |-> a.type, RatePerPerson |-> Truthy(a.rate)]

\* A variant of ApplicableCoupons that compares with the accommodation's type
ApplicableCouponsByType(data, sel) ==
  SelectSeq(data, LAMBDA coupon :
    /\ coupon.active
    /\ \/ coupon.accommodationType = Some("All")
       \/ coupon.accommodationType = NULL
       \/ coupon.accommodationType = Some("")
       \/ coupon.accommodationType = Some(sel.type))

\* The coupons fetchApplicableCoupons keeps for an accommodation.  The
\* accommodationType of a coupon is null (NULL) or a string, which may be the
\* empty string: `!coupon.accommodationType` holds of both.
ApplicableCoupons(data, sel) ==
  SelectSeq(data, LAMBDA coupon :
    /\ coupon.active
    /\ \/ coupon.accommodationType = Some("All")
       \/ coupon.accommodationType = NULL
       \/ coupon.accommodationType = Some("")
       \/ coupon.accommodationType = Some(sel.name))

\* The effect on [coupon_code, allApplicableCoupons]
CouponFilterEffect(b) ==
  IF b.formData.coupon_code # <<>>
  THEN [b EXCEPT !.availableCoupons =
          SelectSeq(b.allApplicableCoupons, LAMBDA coupon :
            Includes(toLowerCase(coupon.code), toLowerCase(b.formData.coupon_code)))]
  ELSE [b EXCEPT !.availableCoupons = b.allApplicableCoupons]

\* validateDates(checkIn, checkOut) with the accommodation_id and blockedDates
\* of the render
validateDates(b, checkIn, checkOut) ==
  LET accommodationId == b.formData.accommodation_id
      blocked == {d \in Get(checkIn)..(Get(checkOut) - 1) :
                    \E i \in 1..Len(b.blockedDates) :
                      /\ b.blockedDates[i].accommodation_id = Get(accommodationId)
                      /\ b.blockedDates[i].blocked_date = d}
  IN IF checkIn = NULL \/ checkOut = NULL \/ accommodationId = NULL THEN b
     ELSE IF blocked = {} THEN [b EXCEPT !.dateError = NULL]
     ELSE [b EXCEPT !.dateError =
             Some(CHOOSE d \in blocked : \A e \in blocked : d <= e)]

\* The effect on [check_in]
CheckInEffect(b) ==
  LET f == b.formData
      nextDay == Some(Get(f.check_in) + 1)
      b1 == IF f.check_out = NULL \/ Get(f.check_out) <= Get(f.check_in)
            THEN [b EXCEPT !.formData.check_out = nextDay]
            ELSE b
  IN IF f.check_in = NULL THEN b
     ELSE [b1 EXCEPT !.dateError = validateDates(b, f.check_in, nextDay).dateError]

\* ---------------------------------------------------- CreateBooking: state
\* The component's useState cells right after mount.  bookedRooms,
\* blockedRoomsCount and showRoomAvailability are written but only rendered,
\* and guest_phone, advance_amount, payment_method and notes are free inputs
\* no handler reads before the payload: they are left out.
BkMounted ==
  [loading |-> TRUE, accommodations |-> <<>>, selectedAccommodation |-> NULL,
   availableCoupons |-> <<>>, allApplicableCoupons |-> <<>>,
   appliedCoupon |-> NULL, availableRooms |-> 0,
   blockedDates |-> <<>>, dateError |-> NULL,
   formData |->
     [guest_name |-> NULL, guest_email |-> NULL, accommodation_id |-> NULL,
      check_in |-> NULL, check_out |-> NULL, adults |-> Some(1),
      children |-> Some(0), extra_adults |-> Some(0), rooms |-> Some(1),
      food_veg |-> Some(0), food_nonveg |-> Some(0), food_jain |-> Some(0),
      total_amount |-> NULL, discounted_amount |-> NULL, coupon_code |-> <<>>]]

\* A network call of the form in flight with what its continuation closes
\* over: the accommodation and check-in asked about, and the blockedDates,
\* selectedAccommodation and rooms field of the render that started it.
BkCont(op, acc, checkIn, list, sel, rooms, payload) ==
  [op |-> op, acc |-> acc, checkIn |-> checkIn, list |-> list, sel |-> sel,
   rooms |-> rooms, payload |-> payload]

BkListCont(op) == BkCont(op, NULL, NULL, <<>>, NULL, NULL, NULL)

\* The effect on [accommodation_id, check_in, blockedDates,
\* selectedAccommodation] up to its await of fetchBookedRooms
AvailabilityEffect(b) ==
  LET f == b.formData
  IN IF f.accommodation_id = NULL \/ f.check_in = NULL
        \/ b.selectedAccommodation = NULL
     THEN [bk |-> [b EXCEPT !.availableRooms = 0], cont |-> NULL]
     ELSE [bk |-> b,
           cont |-> Some(BkCont("bkOccupancy", f.accommodation_id, f.check_in,
                                b.blockedDates, b.selectedAccommodation,
                                f.rooms, NULL))]

\* The same effect after the await
BkAvailable(totalRooms, booked, blockedRooms) ==
  Max0(totalRooms - booked - OrZero(blockedRooms))

\* The form is rendered unless the first load is still running
FormShown(b) == ~(b.loading /\ b.accommodations = <<>>)

\* The inputs the form renders and enables
Editable(b, name, value) ==
  CASE name = "accommodation_id" ->
         IF value = NULL THEN TRUE
         ELSE \E i \in 1..Len(b.accommodations) :
                b.accommodations[i].id = Get(value)
    [] name = "children" -> ~IsVilla(b.selectedAccommodation)
    [] name = "extra_adults" -> IsVilla(b.selectedAccommodation)
    [] name = "rooms" -> ~IsVilla(b.selectedAccommodation) /\ b.availableRooms > 0
    [] name \in {"food_veg", "food_nonveg", "food_jain"} ->
         ~IsVilla(b.selectedAccommodation)
    [] OTHER -> TRUE

\* The values the model types into each field
Typed(name) ==
  CASE name \in {"guest_name", "guest_email"} -> {NULL, Some("a")}
    [] name = "accommodation_id" -> {NULL} \cup {Some(a) : a \in AccIds}
    [] name = "check_in" -> {NULL, Some(0)}
    [] name = "check_out" -> {NULL, Some(0), Some(2)}
    [] name = "adults" -> {NULL, Some(1), Some(3)}
    [] name = "children" -> {Some(0), Some(1)}
    [] name = "extra_adults" -> {Some(0), Some(1)}
    [] name = "rooms" -> {Some(1), Some(2)}
    [] name = "food_veg" -> {Some(0), Some(1), Some(3)}
    [] name \in {"food_nonveg", "food_jain"} -> {Some(0), Some(1)}
    [] name = "coupon_code" -> {<<>>, <<"t">>, <<"F", "O", "U", "R">>}


\* -------------------------------------------------- CreateBooking: actions
\* The accommodations list as the select of the form reads it
BkAccommodations ==
  [i \in 1..Cardinality(AccIds) |-> [id |-> accDb[i].id, name |-> accDb[i].name]]

\* fetchAccommodations of the form answers
BkFetchAccommodationsResponse ==
  /\ mounted = "CreateBooking"
  /\ \E k \in BagToSet(pending) :
       /\ k.op = "bkAccommodations"
       /\ pending' = Done(pending, k)
       /\ \E ok \in BOOLEAN :
            bk' = IF ok
                  THEN [bk EXCEPT !.accommodations = BkAccommodations,
                                  !.loading = FALSE]
                  ELSE [bk EXCEPT !.loading = FALSE]
  /\ submitted' = NULL
  /\ UNCHANGED <<mounted, env, cal, resolved>>
  /\ answered' = NULL

\* fetchBlockedDates of the form answers; the availability effect follows
BkFetchBlockedDatesResponse ==
  /\ mounted = "CreateBooking"
  /\ \E k \in BagToSet(pending) :
       /\ k.op = "bkBlockedDates"
       /\ \E ok \in BOOLEAN :
            IF ok
            THEN LET r == AvailabilityEffect([bk EXCEPT !.blockedDates = store])
                 IN /\ bk' = r.bk
                    /\ pending' = AwaitOpt(Done(pending, k), r.cont)
            ELSE /\ bk' = bk
                 /\ pending' = Done(pending, k)
  /\ submitted' = NULL
  /\ UNCHANGED <<mounted, env, cal, resolved>>
  /\ answered' = NULL

\* handleChange of the input `name`, with the effects its field triggers
HandleChange(name, value) ==
  /\ mounted = "CreateBooking"
  /\ FormShown(bk)
  /\ Editable(bk, name, value)
  /\ bk.formData[name] # value
  /\ LET b1 == [bk EXCEPT !.formData = [@ EXCEPT ![name] = value],
                          !.appliedCoupon =
                             IF name = "coupon_code" THEN NULL ELSE @]
     IN CASE name = "accommodation_id" ->
               LET r == AvailabilityEffect(b1)
                   details == IF value = NULL THEN NULL
                              ELSE Some(BkCont("bkDetails", value, NULL, <<>>,
                                               NULL, NULL, NULL))
               IN /\ (details # NULL \/ r.cont # NULL) => CanAwait
                  /\ bk' = r.bk
                  /\ pending' = AwaitOpt(AwaitOpt(pending, details), r.cont)
          [] name = "check_in" ->
               LET r == AvailabilityEffect(CheckInEffect(b1))
               IN /\ r.cont # NULL => CanAwait
                  /\ bk' = PriceEffect(r.bk)
                  /\ pending' = AwaitOpt(pending, r.cont)
          [] name \in {"check_out", "adults", "children", "extra_adults", "rooms"} ->
               /\ bk' = PriceEffect(b1)
               /\ pending' = pending
          [] name = "coupon_code" ->
               /\ bk' = PriceEffect(CouponFilterEffect(b1))
               /\ pending' = pending
          [] OTHER ->
               /\ bk' = b1
               /\ pending' = pending
  /\ submitted' = NULL
  /\ UNCHANGED <<mounted, env, cal, resolved>>
  /\ answered' = NULL

\* A variant of HandleCouponSelect after which the price effect does not
\* run, as if appliedCoupon were missing from its dependencies
HandleCouponSelectStale(i) ==
  /\ mounted = "CreateBooking"
  /\ FormShown(bk)
  /\ bk.appliedCoupon = NULL
  /\ i \in 1..Len(bk.availableCoupons)
  /\ LET coupon == bk.availableCoupons[i]
         b1 == [bk EXCEPT !.appliedCoupon = Some(coupon),
                          !.formData.coupon_code = coupon.code,
                          !.availableCoupons = <<>>]
     IN bk' = IF bk.formData.coupon_code # coupon.code
              THEN CouponFilterEffect(b1) ELSE b1
  /\ submitted' = NULL
  /\ UNCHANGED <<mounted, env, cal, pending, resolved>>
  /\ answered' = NULL

\* A click on row i of the coupon dropdown
HandleCouponSelect(i) ==
  /\ mounted = "CreateBooking"
  /\ FormShown(bk)
  /\ bk.appliedCoupon = NULL
  /\ i \in 1..Len(bk.availableCoupons)
  /\ LET coupon == bk.availableCoupons[i]
         b1 == [bk EXCEPT !.appliedCoupon = Some(coupon),
                          !.formData.coupon_code = coupon.code,
                          !.availableCoupons = <<>>]
     IN bk' = PriceEffect(IF bk.formData.coupon_code # coupon.code
                          THEN CouponFilterEffect(b1) ELSE b1)
  /\ submitted' = NULL
  /\ UNCHANGED <<mounted, env, cal, pending, resolved>>
  /\ answered' = NULL

\* fetchAccommodationDetails answers; the coupons, coupon-filter,
\* availability and price effects follow
FetchAccommodationDetailsResponse ==
  /\ mounted = "CreateBooking"
  /\ \E k \in BagToSet(pending) :
       /\ k.op = "bkDetails"
       /\ \E ok \in BOOLEAN :
            IF ok
            THEN LET accommodation == AccommodationDetails(accDb[Get(k.acc)])
                     villa == accommodation.type = "Villa"
                     b1 == [bk EXCEPT
                              !.selectedAccommodation = Some(accommodation),
                              !.availableRooms = 0,
                              !.appliedCoupon = NULL,
                              !.formData.coupon_code = <<>>,
                              !.formData.children = IF villa THEN Some(0) ELSE @,
                              !.formData.extra_adults = IF villa THEN @ ELSE Some(0),
                              !.formData.rooms = Some(1)]
                     b2 == IF bk.formData.coupon_code # <<>>
                           THEN CouponFilterEffect(b1) ELSE b1
                     r == AvailabilityEffect(b2)
                     coupon == BkCont("bkCoupons", NULL, NULL, <<>>,
                                      Some(accommodation), NULL, NULL)
                 IN /\ bk' = PriceEffect(r.bk)
                    /\ pending' = AwaitOpt(Await(Done(pending, k), coupon), r.cont)
            ELSE /\ bk' = bk
                 /\ pending' = Done(pending, k)
  /\ submitted' = NULL
  /\ UNCHANGED <<mounted, env, cal, resolved>>
  /\ answered' = NULL

\* fetchApplicableCoupons answers; the coupon-filter effect follows
FetchApplicableCouponsResponse ==
  /\ mounted = "CreateBooking"
  /\ \E k \in BagToSet(pending) :
       /\ k.op = "bkCoupons"
       /\ pending' = Done(pending, k)
       /\ \E ok \in BOOLEAN :
            /\ bk' = CouponFilterEffect(
                       [bk EXCEPT !.allApplicableCoupons =
                          IF ok THEN ApplicableCoupons(coupons, Get(k.sel))
                          ELSE <<>>])
            /\ answered' = Some([op |-> k.op, ok |-> ok, sel |-> k.sel])
  /\ submitted' = NULL
  /\ UNCHANGED <<mounted, env, cal, resolved>>

\* A variant of BkFetchBookedRoomsResponse with a request generation: the
\* answer of a read whose accommodation or check-in is no longer the form's
\* is dropped
BkFetchBookedRoomsResponseGuarded ==
  /\ mounted = "CreateBooking"
  /\ \E k \in BagToSet(pending) :
       /\ k.op = "bkOccupancy"
       /\ pending' = Done(pending, k)
       /\ \E answer \in {NULL} \cup {Some(n) : n \in 0..MaxBooked} :
            LET booked == OrZero(answer)
                hits == RelevantBlocked(k.list, Get(k.acc), Get(k.checkIn))
                blockedRooms == IF hits = <<>> THEN Some(0)
                                ELSE hits[1].rooms_blocked
                sel == Get(k.sel)
                availableRoomsValue ==
                  BkAvailable(sel.available_rooms, booked, blockedRooms)
                b1 == [bk EXCEPT !.availableRooms = availableRoomsValue]
                current == /\ k.acc = bk.formData.accommodation_id
                           /\ k.checkIn = bk.formData.check_in
            IN /\ bk' = IF ~current THEN bk
                          ELSE IF sel.type # "Villa"
                                  /\ Gt(k.rooms, Some(availableRoomsValue))
                          THEN PriceEffect([b1 EXCEPT !.formData.rooms =
                                              Some(availableRoomsValue)])
                          ELSE b1
               /\ answered' = Some([op |-> k.op, ok |-> answer # NULL,
                                    acc |-> k.acc, checkIn |-> k.checkIn,
                                    total |-> sel.available_rooms,
                                    booked |-> booked,
                                    blocked |-> OrZero(blockedRooms),
                                    error |-> bk.dateError])
  /\ submitted' = NULL
  /\ UNCHANGED <<mounted, env, cal, resolved>>

\* fetchBookedRooms of the form answers (NULL: the read failed, counted as 0)
\* and the availability effect runs to its end with the values of the render
\* that started it
BkFetchBookedRoomsResponse ==
  /\ mounted = "CreateBooking"
  /\ \E k \in BagToSet(pending) :
       /\ k.op = "bkOccupancy"
       /\ pending' = Done(pending, k)
       /\ \E answer \in {NULL} \cup {Some(n) : n \in 0..MaxBooked} :
            LET booked == OrZero(answer)
                hits == RelevantBlocked(k.list, Get(k.acc), Get(k.checkIn))
                blockedRooms == IF hits = <<>> THEN Some(0)
                                ELSE hits[1].rooms_blocked
                sel == Get(k.sel)
                availableRoomsValue ==
                  BkAvailable(sel.available_rooms, booked, blockedRooms)
                b1 == [bk EXCEPT !.availableRooms = availableRoomsValue]
            IN /\ bk' = IF sel.type # "Villa"
                             /\ Gt(k.rooms, Some(availableRoomsValue))
                          THEN PriceEffect([b1 EXCEPT !.formData.rooms =
                                              Some(availableRoomsValue)])
                          ELSE b1
               /\ answered' = Some([op |-> k.op, ok |-> answer # NULL,
                                    acc |-> k.acc, checkIn |-> k.checkIn,
                                    total |-> sel.available_rooms,
                                    booked |-> booked,
                                    blocked |-> OrZero(blockedRooms),
                                    error |-> bk.dateError])
  /\ submitted' = NULL
  /\ UNCHANGED <<mounted, env, cal, resolved>>

\* ------------------------------------------------ CreateBooking: submission
\* The checks of handleSubmit, in its order
MissingRequired(f) ==
  \/ f.guest_name = NULL \/ f.guest_email = NULL \/ f.accommodation_id = NULL
  \/ f.check_in = NULL \/ f.check_out = NULL \/ f.total_amount = NULL

\* Variants of the checks the claims are tested against: a fully-booked
\* check that only fires below zero, capacity checks that allow one adult
\* more in a villa or count adults only elsewhere, a food check that only
\* rejects too few meals, and a rooms check that allows one room more.
FullyBookedBelowZero(availableRooms) == availableRooms < 0

OverCapacityVillaPlusOne(sel, adults, totalGuests, rooms) ==
  /\ sel # NULL
  /\ IF Get(sel).type = "Villa"
     THEN Gt(adults, Some(Get(sel).capacity + 1))
     ELSE /\ totalGuests # NaN /\ rooms # NaN
          /\ Get(totalGuests) > Get(rooms) * Get(sel).capacity

OverCapacityAdultsOnly(sel, adults, totalGuests, rooms) ==
  /\ sel # NULL
  /\ IF Get(sel).type = "Villa"
     THEN Gt(adults, Some(Get(sel).capacity))
     ELSE /\ adults # NaN /\ rooms # NaN
          /\ Get(adults) > Get(rooms) * Get(sel).capacity

FoodBelowGuests(sel, totalFood, totalGuests) ==
  ~IsVilla(sel) /\ Lt(totalFood, totalGuests)

OverAvailablePlusOne(sel, rooms, availableRooms) ==
  ~IsVilla(sel) /\ Gt(rooms, Some(availableRooms + 1))

FullyBooked(availableRooms) == availableRooms = 0

OverCapacity(sel, adults, totalGuests, rooms) ==
  /\ sel # NULL
  /\ IF Get(sel).type = "Villa"
     THEN Gt(adults, Some(Get(sel).capacity))
     ELSE /\ totalGuests # NaN /\ rooms # NaN
          /\ Get(totalGuests) > Get(rooms) * Get(sel).capacity

FoodMismatch(sel, totalFood, totalGuests) ==
  ~IsVilla(sel) /\ StrictNeq(totalFood, totalGuests)

OverAvailable(sel, rooms, availableRooms) ==
  ~IsVilla(sel) /\ Gt(rooms, Some(availableRooms))

\* The alert handleSubmit stops at, or "post" when it goes on to the POST
SubmitOutcome(b) ==
  LET f == b.formData
      sel == b.selectedAccommodation
      adults == f.adults
      children == Some(OrZero(f.children))
      extra_adults == Some(OrZero(f.extra_adults))
      rooms == f.rooms
      totalGuests == Add(Add(adults, children), extra_adults)
      totalFood == Add(Add(f.food_veg, f.food_nonveg), f.food_jain)
  IN IF MissingRequired(f) THEN "required"
     ELSE IF FullyBooked(b.availableRooms) THEN "fullyBooked"
     ELSE IF OverCapacity(sel, adults, totalGuests, rooms) THEN "capacity"
     ELSE IF FoodMismatch(sel, totalFood, totalGuests) THEN "food"
     ELSE IF ~Lt(f.check_in, f.check_out) THEN "dates"
     ELSE IF Lt(adults, Some(1)) \/ Lt(rooms, Some(1)) THEN "minimum"
     ELSE IF OverAvailable(sel, rooms, b.availableRooms) THEN "rooms"
     ELSE "post"

bookingPayload(b) ==
  LET f == b.formData
  IN [accommodation_id |-> f.accommodation_id, check_in |-> f.check_in,
      check_out |-> f.check_out, adults |-> f.adults,
      children |-> Some(OrZero(f.children)),
      extra_adults |-> Some(OrZero(f.extra_adults)), rooms |-> f.rooms,
      food_veg |-> f.food_veg, food_nonveg |-> f.food_nonveg,
      food_jain |-> f.food_jain, coupon |-> f.coupon_code,
      discount |-> OrZero(f.total_amount) - OrZero(f.discounted_amount),
      full_amount |-> f.total_amount,
      total_amount |-> IF f.discounted_amount # NULL THEN f.discounted_amount
                       ELSE f.total_amount,
      isvilla |-> IsVilla(b.selectedAccommodation)]

\* The form is submitted
HandleSubmit ==
  /\ mounted = "CreateBooking"
  /\ FormShown(bk) /\ ~bk.loading
  /\ LET outcome == SubmitOutcome(bk)
     IN /\ submitted' = Some([availableRooms |-> bk.availableRooms,
                              sel |-> bk.selectedAccommodation,
                              form |-> bk.formData, outcome |-> outcome])
        /\ IF outcome = "post"
           THEN /\ CanAwait
                /\ bk' = [bk EXCEPT !.loading = TRUE]
                /\ pending' = Await(pending,
                     BkCont("bkBooking", NULL, NULL, <<>>, NULL, NULL,
                            Some(bookingPayload(bk))))
           ELSE UNCHANGED <<bk, pending>>
  /\ UNCHANGED <<mounted, env, cal, resolved>>
  /\ answered' = NULL

\* A variant of BookingResponse that navigates to the bookings list
\* whatever the answer
BookingResponseNavigating ==
  /\ mounted = "CreateBooking"
  /\ \E k \in BagToSet(pending) :
       /\ k.op = "bkBooking"
       /\ \E outcome \in {"ok", "refused", "error"} :
            /\ answered' = Some([op |-> k.op, ok |-> outcome = "ok",
                                 alert |-> "Booking created successfully!"])
            /\ mounted' = "Bookings"
            /\ pending' = EmptyBag
            /\ bk' = bk
  /\ submitted' = NULL
  /\ UNCHANGED <<env, cal, resolved>>

\* The POST answers.  "ok": the voucher is generated and the page navigates
\* to the bookings list, so the form is gone; "error": the request failed or
\* the status is not OK; "refused": the status is OK but the body carries no
\* booking, and reading result.data.booking.id throws.  Both failures end
\* in the catch, which alerts, and the form stays.
BookingResponse ==
  /\ mounted = "CreateBooking"
  /\ \E k \in BagToSet(pending) :
       /\ k.op = "bkBooking"
       /\ \E outcome \in {"ok", "refused", "error"} :
            /\ answered' = Some([op |-> k.op, ok |-> outcome = "ok",
                                 alert |-> IF outcome = "ok"
                                           THEN "Booking created successfully!"
                                           ELSE "Error creating booking"])
            /\ IF outcome = "ok"
               THEN /\ mounted' = "Bookings"
                    /\ pending' = EmptyBag
                    /\ bk' = bk
               ELSE /\ mounted' = mounted
                    /\ pending' = Done(pending, k)
                    /\ bk' = [bk EXCEPT !.loading = FALSE]
  /\ submitted' = NULL
  /\ UNCHANGED <<env, cal, resolved>>

\* A POST of a booking is in flight
Posting == \E k \in BagToSet(pending) : k.op = "bkBooking"

\* ----------------------------------------------------------- specifications
\* Rows without duplicates for the handlers of the two views
PlainStamp == [updated_at |-> NULL, created_at |-> Local(10)]
CalSmallTables ==
  Tables({BlockedRow(2, 0, NULL, PlainStamp, NULL),
          BlockedRow(2, 0, Some(1), PlainStamp, NULL)}, 1)
BkSmallTables ==
  Tables({BlockedRow(2, 0, NULL, PlainStamp, Some(1))}, 1)

\* The Calendar once both of its list fetches have answered
CalLoaded ==
  [CalMounted EXCEPT !.loading = FALSE, !.blockedDates = store,
                     !.accommodations = CalAccommodations]

\* The form once both of its list fetches have answered
BkLoaded ==
  [BkMounted EXCEPT !.loading = FALSE, !.accommodations = BkAccommodations,
                    !.blockedDates = store]

\* The form once accommodation a was chosen and its details and coupons
\* have arrived
BkChosen(a) ==
  LET sel == AccommodationDetails(accDb[a])
  IN PriceEffect([BkLoaded EXCEPT
                    !.formData.accommodation_id = Some(a),
                    !.selectedAccommodation = Some(sel),
                    !.allApplicableCoupons = ApplicableCoupons(coupons, sel),
                    !.availableCoupons = ApplicableCoupons(coupons, sel)])

\* SpecResolve: calculateAvailableRooms of the Calendar over every table of up
\* to MaxRecs rows, duplicates and all stamp formats included, on both engines.
InitResolve ==
  /\ mounted = "Calendar"
  /\ accDb \in {AccCatalog(r) : r \in {0, MaxRooms}}
  /\ store \in Tables(CalRecSpace, MaxRecs)
  /\ nextId = MaxRecs + 1
  /\ writes = 0
  /\ coupons = CouponCatalog
  /\ lenientDates \in BOOLEAN
  /\ cal = CalLoaded
  /\ bk = BkMounted
  /\ pending = EmptyBag
  /\ resolved = NULL
  /\ submitted = NULL
  /\ answered = NULL

NextResolve ==
  \/ \E a \in AccIds \cup {3}, d \in {0, 1} : CalculateAvailableRooms(a, d)
  \/ FetchBookedRoomsResponse

SpecResolve == InitResolve /\ [][NextResolve]_vars

\* SpecRooms: either view from its mount, with the handlers that write
\* availableRooms.  No date has two rows here, so no stamp is ever parsed and
\* the engine does not matter.
InitRooms ==
  /\ mounted \in {"Calendar", "CreateBooking"}
  /\ accDb = AccCatalog(MaxRooms)
  /\ store \in IF mounted = "Calendar" THEN CalSmallTables ELSE BkSmallTables
  /\ nextId = MaxRecs + 1
  /\ writes = 0
  /\ coupons = CouponCatalog
  /\ lenientDates = FALSE
  /\ cal = CalMounted
  /\ bk = BkMounted
  /\ pending = IF mounted = "Calendar"
               THEN SetToBag({ListCont("blockedDates"), ListCont("accommodations")})
               ELSE SetToBag({BkListCont("bkAccommodations"),
                              BkListCont("bkBlockedDates")})
  /\ resolved = NULL
  /\ submitted = NULL
  /\ answered = NULL

NextRooms ==
  \/ FetchBlockedDatesResponse
  \/ FetchAccommodationsResponse
  \/ ClearAlerts
  \/ BkFetchAccommodationsResponse
  \/ BkFetchBlockedDatesResponse
  \/ \E day \in Days : HandleDayClick(day)
  \/ \E id \in {NULL} \cup {Some(a) : a \in AccIds} : HandleAccommodationChange(id)
  \/ FetchBlockedDatePricesResponse
  \/ FetchBookedRoomsResponse
  \/ \E i \in 1..MaxRecs : EditBlockedDate(i)
  \/ ResetForm
  \/ \E name \in {"accommodation_id", "check_in", "rooms"} :
       \E value \in Typed(name) : HandleChange(name, value)
  \/ FetchAccommodationDetailsResponse
  \/ FetchApplicableCouponsResponse
  \/ BkFetchBookedRoomsResponse

SpecRooms == InitRooms /\ [][NextRooms]_vars

\* SpecSubmit: handleSubmit applied to the forms a user can have filled in.
\* The details of the chosen accommodation have arrived, so a villa has
\* children 0 and rooms 1 and any other accommodation has extra_adults 0;
\* availableRooms is any value the availability effect can have left.
SubmitInputs ==
  [guest_name : {NULL, Some("a")}, check_out : {Some(0), Some(1)},
   adults : {NULL, Some(1), Some(2), Some(3)}, children : {Some(0), Some(1)},
   extra_adults : {Some(0), Some(1)}, rooms : {Some(0), Some(1), Some(2)},
   food_veg : {Some(0), Some(1), Some(3)}, food_nonveg : {Some(0), Some(1)},
   food_jain : {Some(0), Some(1)}]

BkFilled(a, availableRooms, in) ==
  LET b == BkChosen(a)
  IN PriceEffect([b EXCEPT
       !.availableRooms = availableRooms,
       !.formData = [@ EXCEPT
          !.guest_name = in.guest_name, !.guest_email = Some("a"),
          !.check_in = Some(0), !.check_out = in.check_out,
          !.adults = in.adults, !.children = in.children,
          !.extra_adults = in.extra_adults, !.rooms = in.rooms,
          !.food_veg = in.food_veg, !.food_nonveg = in.food_nonveg,
          !.food_jain = in.food_jain]])

InitSubmit ==
  /\ mounted = "CreateBooking"
  /\ accDb \in {AccCatalog(r) : r \in 0..MaxRooms}
  /\ store = <<>>
  /\ nextId = MaxRecs + 1
  /\ writes = 0
  /\ coupons = CouponCatalog
  /\ lenientDates = FALSE
  /\ cal = CalMounted
  /\ \E a \in AccIds, in \in SubmitInputs :
       /\ IF accDb[a].type = "Villa"
          THEN in.children = Some(0) /\ in.rooms = Some(1)
          ELSE in.extra_adults = Some(0)
       /\ \E availableRooms \in 0..accDb[a].rooms :
            bk = BkFilled(a, availableRooms, in)
  /\ pending = EmptyBag
  /\ resolved = NULL
  /\ submitted = NULL
  /\ answered = NULL

NextSubmit ==
  \/ HandleSubmit
  \/ BookingResponse

SpecSubmit == InitSubmit /\ [][NextSubmit]_vars

\* SpecPrice: the inputs the price effect depends on, from the form with an
\* accommodation chosen.  fetchAccommodationDetails has reset children to 0
\* for the villa, whose form has no children input.
InitPrice ==
  /\ mounted = "CreateBooking"
  /\ accDb = AccCatalog(MaxRooms)
  /\ store = <<>>
  /\ nextId = MaxRecs + 1
  /\ writes = 0
  /\ coupons = CouponCatalog
  /\ lenientDates = FALSE
  /\ cal = CalMounted
  /\ \E a \in AccIds : bk = BkChosen(a)
  /\ pending = EmptyBag
  /\ resolved = NULL
  /\ submitted = NULL
  /\ answered = NULL

NextPrice ==
  \/ \E name \in {"check_in", "check_out", "adults", "children",
                  "extra_adults", "coupon_code"} :
       \E value \in Typed(name) : HandleChange(name, value)
  \/ \E i \in 1..Len(CouponCatalog) : HandleCouponSelect(i)
  \/ BkFetchBookedRoomsResponse

SpecPrice == InitPrice /\ [][NextPrice]_vars

\* SpecNights: the two date inputs of the form over every pair of the days
\* -1..MaxStay, either of them empty or not, with an accommodation chosen.
StayDates == {NULL} \cup {Some(d) : d \in -1..MaxStay}

NextNights ==
  \/ \E value \in StayDates : HandleChange("check_in", value)
  \/ \E value \in StayDates : HandleChange("check_out", value)
  \/ BkFetchBookedRoomsResponse

SpecNights == InitPrice /\ [][NextNights]_vars

\* SpecDiscount: the price effect with the backend holding one coupon, over
\* every coupon of CouponSpace.  minAmount and maxDiscount are null or a
\* decimal string ("0" is a present value).  The form has an accommodation
\* chosen and today as check_in, for which no room was found booked.
CouponSpace ==
  [id : {1}, code : {<<"T", "E", "N">>}, discount : {4, 150},
   discountType : {"percentage", "fixed"}, minAmount : {NULL, Some(0), Some(6)},
   maxDiscount : {NULL, Some(0), Some(1)}, active : {TRUE},
   accommodationType : {NULL}]

InitDiscount ==
  /\ mounted = "CreateBooking"
  /\ accDb = AccCatalog(MaxRooms)
  /\ store = <<>>
  /\ nextId = MaxRecs + 1
  /\ writes = 0
  /\ coupons \in {<<c>> : c \in CouponSpace}
  /\ lenientDates = FALSE
  /\ cal = CalMounted
  /\ \E a \in AccIds :
       bk = PriceEffect([BkChosen(a) EXCEPT
                           !.formData.check_in = Some(0),
                           !.formData.check_out = Some(1),
                           !.availableRooms = accDb[a].rooms])
  /\ pending = EmptyBag
  /\ resolved = NULL
  /\ submitted = NULL
  /\ answered = NULL

NextDiscount ==
  \/ \E name \in {"check_out", "adults", "children", "extra_adults",
                  "coupon_code"} :
       \E value \in Typed(name) : HandleChange(name, value)
  \/ \E i \in 1..Len(CouponCatalog) : HandleCouponSelect(i)

SpecDiscount == InitDiscount /\ [][NextDiscount]_vars

\* SpecCoupons: the form from its loaded state with the backend holding up to
\* two coupons, active or not, of every kind of accommodationType: null, the
\* empty string, "All", the name of either accommodation, the type of the
\* second one, and the first one's name in lower case.
CouponKinds ==
  [id : {1}, code : {<<"T", "E", "N">>}, discount : {4},
   discountType : {"fixed"}, minAmount : {NULL}, maxDiscount : {NULL},
   active : BOOLEAN,
   accommodationType : {NULL, Some(""), Some("All"), Some("Villa"),
                        Some("villa"), Some("Lake View"), Some("Deluxe")}]

CouponTables ==
  {<<>>} \cup {<<c>> : c \in CouponKinds}
         \cup {<<c, [d EXCEPT !.id = 2]>> : c \in CouponKinds, d \in CouponKinds}

InitCoupons ==
  /\ mounted = "CreateBooking"
  /\ accDb = AccCatalog(MaxRooms)
  /\ store = <<>>
  /\ nextId = MaxRecs + 1
  /\ writes = 0
  /\ coupons \in CouponTables
  /\ lenientDates = FALSE
  /\ cal = CalMounted
  /\ bk = BkLoaded
  /\ pending = EmptyBag
  /\ resolved = NULL
  /\ submitted = NULL
  /\ answered = NULL

NextCoupons ==
  \/ \E value \in Typed("accommodation_id") : HandleChange("accommodation_id", value)
  \/ FetchAccommodationDetailsResponse
  \/ FetchApplicableCouponsResponse

SpecCoupons == InitCoupons /\ [][NextCoupons]_vars

\* SpecPrices: the price resolution of the Calendar (getUpdatedPrices) from
\* the loaded view, over tables whose one row carries no override, an
\* override of one price or of both.
PricedRows ==
  {[BlockedRow(2, 0, Some(1), PlainStamp, NULL)
      EXCEPT !.adult_price = a, !.child_price = c] :
     a \in {NULL, Some(4)}, c \in {NULL, Some(2)}}

InitPrices ==
  /\ mounted = "Calendar"
  /\ accDb = AccCatalog(MaxRooms)
  /\ store \in Tables(PricedRows, 1)
  /\ nextId = MaxRecs + 1
  /\ writes = 0
  /\ coupons = CouponCatalog
  /\ lenientDates = FALSE
  /\ cal = CalLoaded
  /\ bk = BkMounted
  /\ pending = EmptyBag
  /\ resolved = NULL
  /\ submitted = NULL
  /\ answered = NULL

NextPrices ==
  \/ \E day \in Days : HandleDayClick(day)
  \/ \E id \in {NULL} \cup {Some(a) : a \in AccIds} : HandleAccommodationChange(id)
  \/ FetchBlockedDatePricesResponse
  \/ FetchBookedRoomsResponse
  \/ ResetForm

SpecPrices == InitPrices /\ [][NextPrices]_vars

\* SpecSave: the loaded Calendar with the price section of its form, its
\* saves and its removals, over tables with no two rows for one
\* (accommodation, date): a row of the standard accommodation for today with
\* one blocked room and a price, and a row for tomorrow that blocks every room.
\* The adult price is cleared or typed as 7; the child price is left as loaded.
SaveTables ==
  LET today == [BlockedRow(2, 0, Some(1), PlainStamp, NULL)
                  EXCEPT !.adult_price = Some(4)]
      tomorrow == BlockedRow(2, 1, NULL, PlainStamp, NULL)
  IN {<<WithId(today, 1)>>, <<WithId(today, 1), WithId(tomorrow, 2)>>}

InitSave ==
  /\ mounted = "Calendar"
  /\ accDb = AccCatalog(1)
  /\ store \in SaveTables
  /\ nextId = MaxRecs + 1
  /\ writes = 0
  /\ coupons = CouponCatalog
  /\ lenientDates = FALSE
  /\ cal = CalLoaded
  /\ bk = BkMounted
  /\ pending = EmptyBag
  /\ resolved = NULL
  /\ submitted = NULL
  /\ answered = NULL

NextSave ==
  \/ FetchBlockedDatesResponse
  \/ \E day \in Days : HandleDayClick(day)
  \/ \E id \in {NULL, Some(2)} : HandleAccommodationChange(id)
  \/ FetchBlockedDatePricesResponse
  \/ FetchBookedRoomsResponse
  \/ \E i \in 1..(MaxRecs + MaxSaves) : EditBlockedDate(i)
  \/ ResetForm
  \/ \E value \in {NULL, Some(7)} : SetPrice("adult", value)
  \/ HandleSaveBlockedDates
  \/ SaveBlockedDatesResponse
  \/ \E i \in 1..(MaxRecs + MaxSaves) : HandleRemoveBlockedDate(i)
  \/ RemoveBlockedDateResponse

SpecSave == InitSave /\ [][NextSave]_vars

\* SpecInventory: the loaded Calendar with both sections of its form and the
\* controls of the inventory section, for the one save the session has left.
InitInventory ==
  /\ mounted = "Calendar"
  /\ accDb = AccCatalog(1)
  /\ store \in SaveTables
  /\ nextId = MaxRecs + 1
  /\ writes = MaxSaves - 1
  /\ coupons = CouponCatalog
  /\ lenientDates = FALSE
  /\ cal = CalLoaded
  /\ bk = BkMounted
  /\ pending = EmptyBag
  /\ resolved = NULL
  /\ submitted = NULL
  /\ answered = NULL

NextInventory ==
  \/ FetchBlockedDatesResponse
  \/ \E day \in Days : HandleDayClick(day)
  \/ \E id \in {NULL, Some(2)} : HandleAccommodationChange(id)
  \/ FetchBlockedDatePricesResponse
  \/ FetchBookedRoomsResponse
  \/ \E i \in 1..(MaxRecs + MaxSaves) : EditBlockedDate(i)
  \/ \E section \in {"price", "inventory"} : SetActiveSection(section)
  \/ ToggleBlockAll
  \/ \E step \in {-1, 1} : StepSelectedRoom(step)
  \/ HandleSaveBlockedDates
  \/ SaveBlockedDatesResponse

SpecInventory == InitInventory /\ [][NextInventory]_vars

\* SpecTotals: the form from its loaded state with every handler that
\* changes an input of the price effect: the accommodation, the dates, the
\* guest counts and the coupon.
TotalsTyped(name) ==
  CASE name = "accommodation_id" -> {Some(a) : a \in AccIds}
    [] name = "check_in" -> {Some(0)}
    [] name = "check_out" -> {Some(2)}
    [] name = "adults" -> {Some(3)}
    [] name = "children" -> {Some(1)}
    [] name = "extra_adults" -> {Some(1)}
    [] name = "coupon_code" -> {<<"t">>}

NextTotals ==
  \/ \E name \in {"accommodation_id", "check_in", "check_out", "adults",
                  "children", "extra_adults", "coupon_code"} :
       \E value \in TotalsTyped(name) : HandleChange(name, value)
  \/ \E i \in 1..Len(CouponCatalog) : HandleCouponSelect(i)
  \/ FetchAccommodationDetailsResponse
  \/ FetchApplicableCouponsResponse
  \/ BkFetchBookedRoomsResponse

InitTotals ==
  /\ mounted = "CreateBooking"
  /\ accDb = AccCatalog(1)
  /\ store = <<>>
  /\ nextId = MaxRecs + 1
  /\ writes = 0
  /\ coupons = CouponCatalog
  /\ lenientDates = FALSE
  /\ cal = CalMounted
  /\ bk = BkLoaded
  /\ pending = EmptyBag
  /\ resolved = NULL
  /\ submitted = NULL
  /\ answered = NULL

SpecTotals == InitTotals /\ [][NextTotals]_vars

\* SpecForm: the booking form from its loaded state, guest name and email
\* typed in, up to the POST of the booking and its answer.  The table blocks
\* today for the villa, so validateDates has a date to report.
FormTable == <<WithId(BlockedRow(1, 0, NULL, PlainStamp, NULL), 1)>>

FormTyped(name) ==
  CASE name = "accommodation_id" -> {Some(a) : a \in AccIds}
    [] name = "check_in" -> {NULL, Some(0)}
    [] name = "food_veg" -> {Some(1)}

InitForm ==
  /\ mounted = "CreateBooking"
  /\ accDb = AccCatalog(1)
  /\ store = FormTable
  /\ nextId = MaxRecs + 1
  /\ writes = 0
  /\ coupons = CouponCatalog
  /\ lenientDates = FALSE
  /\ cal = CalMounted
  /\ bk = [BkLoaded EXCEPT !.formData.guest_name = Some("a"),
                           !.formData.guest_email = Some("a")]
  /\ pending = EmptyBag
  /\ resolved = NULL
  /\ submitted = NULL
  /\ answered = NULL

NextForm ==
  \/ \E name \in {"accommodation_id", "check_in", "food_veg"} :
       \E value \in FormTyped(name) : HandleChange(name, value)
  \/ FetchAccommodationDetailsResponse
  \/ FetchApplicableCouponsResponse
  \/ BkFetchBookedRoomsResponse
  \/ HandleSubmit
  \/ BookingResponse

SpecForm == InitForm /\ [][NextForm]_vars

\* SpecRace: the booking form with two occupancy reads in flight, the state
\* a user reaches by changing the accommodation or the check-in while the
\* read for the previous inputs has not answered: one read closed over the
\* superseded inputs, one over the current ones, and the details answer has
\* just reset availableRooms to 0.
RaceInputs == [acc : AccIds, checkIn : {0, 1}]

RaceRead(in) ==
  BkCont("bkOccupancy", Some(in.acc), Some(in.checkIn), store,
         Some(AccommodationDetails(accDb[in.acc])), Some(1), NULL)

RaceTyped(name) ==
  CASE name = "check_in" -> {Some(0), Some(1)}
    [] name = "adults" -> {Some(1), Some(3)}

InitRace ==
  /\ mounted = "CreateBooking"
  /\ accDb = AccCatalog(MaxRooms)
  /\ store \in BkSmallTables
  /\ nextId = MaxRecs + 1
  /\ writes = 0
  /\ coupons = CouponCatalog
  /\ lenientDates = FALSE
  /\ cal = CalMounted
  /\ \E superseded \in RaceInputs, current \in RaceInputs :
       /\ superseded # current
       /\ bk = PriceEffect(CheckInEffect(
                  [BkChosen(current.acc) EXCEPT
                     !.formData.check_in = Some(current.checkIn)]))
       /\ pending = SetToBag({RaceRead(superseded), RaceRead(current)})
  /\ resolved = NULL
  /\ submitted = NULL
  /\ answered = NULL

NextRace ==
  \/ BkFetchBookedRoomsResponse
  \/ \E name \in {"check_in", "adults"} :
       \E value \in RaceTyped(name) : HandleChange(name, value)

SpecRace == InitRace /\ [][NextRace]_vars

\* SpecWrites: the writes of both views and their answers.  The Calendar is
\* loaded over a table with a row of yesterday and a row that blocks every
\* room tomorrow, and has one save or removal left; the booking form is
\* filled in for a night in the villa.
WriteTable ==
  <<WithId(BlockedRow(2, -1, Some(1), PlainStamp, NULL), 1),
    WithId(BlockedRow(2, 1, NULL, PlainStamp, NULL), 2)>>

WriteInputs ==
  [guest_name |-> Some("a"), check_out |-> Some(1), adults |-> Some(1),
   children |-> Some(0), extra_adults |-> Some(0), rooms |-> Some(1),
   food_veg |-> Some(0), food_nonveg |-> Some(0), food_jain |-> Some(0)]

InitWrites ==
  /\ mounted \in {"Calendar", "CreateBooking"}
  /\ accDb = AccCatalog(1)
  /\ store = WriteTable
  /\ nextId = MaxRecs + 1
  /\ writes = MaxSaves - 1
  /\ coupons = CouponCatalog
  /\ lenientDates = FALSE
  /\ cal = IF mounted = "Calendar" THEN CalLoaded ELSE CalMounted
  /\ bk = IF mounted = "Calendar" THEN BkMounted
          ELSE BkFilled(1, 1, WriteInputs)
  /\ pending = EmptyBag
  /\ resolved = NULL
  /\ submitted = NULL
  /\ answered = NULL

NextWrites ==
  \/ FetchBlockedDatesResponse
  \/ \E day \in Days : HandleDayClick(day)
  \/ HandleAccommodationChange(Some(2))
  \/ FetchBlockedDatePricesResponse
  \/ FetchBookedRoomsResponse
  \/ \E i \in 1..Len(WriteTable) : EditBlockedDate(i)
  \/ ResetForm
  \/ HandleSaveBlockedDates
  \/ SaveBlockedDatesResponse
  \/ \E i \in 1..Len(WriteTable) : HandleRemoveBlockedDate(i)
  \/ RemoveBlockedDateResponse
  \/ HandleSubmit
  \/ BookingResponse

SpecWrites == InitWrites /\ [][NextWrites]_vars

\* ------------------------------------------------------------------ claims
\* C1, as the specification states it: when the record that governs an
\* (accommodation, date) pair has rooms null, the Calendar's
\* calculateAvailableRooms returns 0.
C1_NullRoomsGiveZero ==
  resolved # NULL =>
    LET r == Get(resolved)
    IN (r.governing # NULL /\ Get(r.governing).rooms = NULL) => r.available = 0

\* C2: the Calendar's calculateAvailableRooms returns max(0, total - booked)
\* when the list holds no record for the (accommodation, date) pair, and
\* max(0, total + delta - booked) when the governing record, which is one of
\* the list's records for the pair, carries a numeric rooms value delta.
C2_AvailabilityArithmetic ==
  resolved # NULL =>
    LET r == Get(resolved)
        total == accDb[r.acc].rooms
        forPair == {i \in 1..Len(r.list) :
                      /\ r.list[i].accommodation_id = r.acc
                      /\ r.list[i].blocked_date = r.day}
        clamp(n) == IF n < 0 THEN 0 ELSE n
    IN /\ (forPair = {}) <=> (r.governing = NULL)
       /\ forPair = {} => r.available = clamp(total - r.booked)
       /\ r.governing # NULL =>
            /\ \E i \in forPair : r.list[i] = Get(r.governing)
            /\ Get(r.governing).rooms # NULL =>
                 r.available =
                   clamp(total + Get(Get(r.governing).rooms) - r.booked)

\* A call answered for a pair whose governing record adds a room while one
\* room is booked
C2_DeltaApplied ==
  /\ resolved # NULL
  /\ Get(resolved).governing # NULL
  /\ Get(Get(resolved).governing).rooms = Some(1)
  /\ Get(resolved).booked = 1
  /\ Get(resolved).available = accDb[Get(resolved).acc].rooms
  /\ cal.availableRooms = Some(Get(resolved).available)

\* C3: availableRooms is never negative in either view: the form's is a
\* number >= 0, the Calendar's is null or a number >= 0.
C3_AvailableRoomsNotNegative ==
  /\ bk.availableRooms >= 0
  /\ cal.availableRooms # NULL => Get(cal.availableRooms) >= 0

\* More rooms are booked than the accommodation has and the Calendar shows 0
C3_ClampedAtZero ==
  /\ resolved # NULL
  /\ accDb[Get(resolved).acc].rooms < Get(resolved).booked
  /\ Get(resolved).governing = NULL
  /\ cal.availableRooms = Some(0)

\* C4, as the specification states it: among several records for one
\* (accommodation, date) pair the one with the greatest
\* max(updated_at, created_at) governs, whatever the order of the list
\* (records with equal times aside).
C4_LatestRecordGoverns ==
  resolved # NULL =>
    LET r == Get(resolved)
        time(s) == IF s = NULL THEN 0 ELSE Get(s).day
        latest(item) == IF time(item.updated_at) >= time(item.created_at)
                        THEN time(item.updated_at) ELSE time(item.created_at)
    IN r.governing # NULL =>
         \A i \in 1..Len(r.list) :
           (r.list[i].accommodation_id = r.acc /\ r.list[i].blocked_date = r.day)
             => latest(Get(r.governing)) >= latest(r.list[i])

\* C5: a submission made while availableRooms is 0 is rejected and no POST is
\* issued, for villas too.
C5_FullyBookedRejected ==
  (submitted # NULL /\ Get(submitted).availableRooms = 0) => ~Posting

\* An otherwise valid villa booking submitted with availableRooms 0
C5_VillaFullyBooked ==
  /\ submitted # NULL
  /\ Get(submitted).availableRooms = 0
  /\ IsVilla(Get(submitted).sel)
  /\ Get(submitted).outcome = "fullyBooked"
  /\ Get(submitted).form.adults = Some(1)
  /\ Get(submitted).form.check_out = Some(1)
  /\ ~Posting

\* C6: a villa submission whose adults exceed the villa's capacity is
\* rejected, whatever extra_adults is.
C6_VillaOverCapacityRejected ==
  (/\ submitted # NULL
   /\ IsVilla(Get(submitted).sel)
   /\ Get(submitted).form.adults # NULL
   /\ Get(Get(submitted).form.adults) > Get(Get(submitted).sel).capacity)
  => ~Posting

\* A villa with rooms free, three adults for a capacity of two and one extra
\* adult declared
C6_VillaOverCapacity ==
  /\ submitted # NULL
  /\ IsVilla(Get(submitted).sel)
  /\ Get(submitted).availableRooms > 0
  /\ Get(submitted).form.adults = Some(3)
  /\ Get(submitted).form.extra_adults = Some(1)
  /\ Get(submitted).outcome = "capacity"
  /\ ~Posting

\* C7: for an accommodation that is not a villa no POST is issued with rooms
\* greater than availableRooms at submit time; a villa is never stopped by
\* this check.
C7_RoomsWithinAvailable ==
  submitted # NULL =>
    LET s == Get(submitted)
    IN /\ (Posting /\ ~IsVilla(s.sel)) =>
            ~(s.form.rooms # NULL /\ Get(s.form.rooms) > s.availableRooms)
       /\ IsVilla(s.sel) => s.outcome # "rooms"

\* Two rooms asked of an accommodation with one available, all else valid
C7_TooManyRooms ==
  /\ submitted # NULL
  /\ ~IsVilla(Get(submitted).sel)
  /\ Get(submitted).form.rooms = Some(2)
  /\ Get(submitted).availableRooms = 1
  /\ Get(submitted).outcome = "rooms"
  /\ ~Posting

\* C8: for an accommodation that is not a villa a submission with
\* adults + children + extra_adults greater than rooms * capacity is rejected.
C8_GuestsWithinCapacity ==
  submitted # NULL =>
    LET s == Get(submitted)
        f == s.form
    IN (/\ s.sel # NULL /\ ~IsVilla(s.sel)
        /\ f.adults # NULL /\ f.rooms # NULL
        /\ Get(f.adults) + OrZero(f.children) + OrZero(f.extra_adults)
             > Get(f.rooms) * Get(s.sel).capacity)
       => ~Posting

\* Two adults and a child for one room of capacity two, rooms being available
C8_TooManyGuests ==
  /\ submitted # NULL
  /\ ~IsVilla(Get(submitted).sel)
  /\ Get(submitted).availableRooms > 0
  /\ Get(submitted).form.adults = Some(2)
  /\ Get(submitted).form.children = Some(1)
  /\ Get(submitted).form.rooms = Some(1)
  /\ Get(submitted).outcome = "capacity"
  /\ ~Posting

\* C9: for an accommodation that is not a villa a POST is issued only if
\* food_veg + food_nonveg + food_jain equals the total guest count; a villa
\* booking is never rejected for its food counts.
C9_FoodMatchesGuests ==
  submitted # NULL =>
    LET s == Get(submitted)
        f == s.form
    IN /\ (Posting /\ ~IsVilla(s.sel)) =>
            /\ f.adults # NULL /\ f.food_veg # NULL
            /\ f.food_nonveg # NULL /\ f.food_jain # NULL
            /\ Get(f.food_veg) + Get(f.food_nonveg) + Get(f.food_jain)
                 = Get(f.adults) + OrZero(f.children) + OrZero(f.extra_adults)
       /\ IsVilla(s.sel) => s.outcome # "food"

\* A booking for an adult and a child with one veg and one non-veg meal goes
\* out
C9_FoodMatched ==
  /\ submitted # NULL
  /\ Posting
  /\ ~IsVilla(Get(submitted).sel)
  /\ Get(submitted).form.adults = Some(1)
  /\ Get(submitted).form.children = Some(1)
  /\ Get(submitted).form.food_veg = Some(1)
  /\ Get(submitted).form.food_nonveg = Some(1)
  /\ Get(submitted).form.food_jain = Some(0)

\* C10: with an accommodation selected, total_amount and discounted_amount
\* are both "0.00" when the number of nights is 0; otherwise total_amount is
\* (adultPrice + RatePerPerson * extra_adults) * nights for a villa, whatever
\* children is, and (adultPrice * adults + childPrice * children) * nights
\* for any other accommodation, and discounted_amount is
\* calculateDiscount(total, appliedCoupon).
C10_PriceFormula ==
  bk.selectedAccommodation # NULL =>
    LET f == bk.formData
        sel == Get(bk.selectedAccommodation)
        nights == IF f.check_in = NULL \/ f.check_out = NULL THEN 0
                  ELSE IF Get(f.check_out) <= Get(f.check_in) THEN 0
                  ELSE Get(f.check_out) - Get(f.check_in)
        rupees == IF sel.type = "Villa"
                  THEN (sel.adultPrice
                        + OrZero(sel.RatePerPerson) * OrZero(f.extra_adults)) * nights
                  ELSE (sel.adultPrice * OrZero(f.adults)
                        + sel.childPrice * OrZero(f.children)) * nights
    IN IF nights = 0
       THEN f.total_amount = Some(0) /\ f.discounted_amount = Some(0)
       ELSE /\ f.total_amount = Some(100 * rupees)
            /\ f.discounted_amount =
                 Some(calculateDiscount(100 * rupees, bk.appliedCoupon))

\* A villa for two nights with one extra adult and the fixed coupon applied:
\* (5 + 2 * 1) * 2 = 14 rupees, 10 after the coupon
C10_VillaWithCoupon ==
  /\ IsVilla(bk.selectedAccommodation)
  /\ bk.formData.check_in = Some(0)
  /\ bk.formData.check_out = Some(2)
  /\ bk.formData.extra_adults = Some(1)
  /\ bk.appliedCoupon # NULL
  /\ bk.formData.total_amount = Some(1400)
  /\ bk.formData.discounted_amount = Some(1000)

\* C11: calculateNumberOfDays of the form's two dates is the number of days
\* from check_in to check_out when check_out is the later day, and 0 when
\* check_out is the same or an earlier day or either date is empty.
C11_NightsBetween ==
  LET f == bk.formData
      nights == calculateNumberOfDays(f.check_in, f.check_out)
  IN IF f.check_in # NULL /\ f.check_out # NULL
        /\ Get(f.check_out) > Get(f.check_in)
     THEN nights = Get(f.check_out) - Get(f.check_in)
     ELSE nights = 0

\* Yesterday to the day after tomorrow in the standard room, one adult at 3
\* rupees a night: three nights, 9 rupees
C11_ThreeNights ==
  /\ ~IsVilla(bk.selectedAccommodation)
  /\ bk.formData.check_in = Some(-1)
  /\ bk.formData.check_out = Some(2)
  /\ bk.formData.adults = Some(1)
  /\ bk.formData.children = Some(0)
  /\ bk.formData.total_amount = Some(900)

\* C12: the discounted amount is the total when no coupon is applied or the
\* total is below the coupon's minAmount (0 when it has none); otherwise it
\* is the total less min(total * discount / 100, maxDiscount) for a
\* percentage coupon (no cap when it has no maxDiscount) and the total less
\* discount for a fixed coupon, and never below 0.
C12_DiscountFormula ==
  (bk.selectedAccommodation # NULL /\ bk.formData.total_amount # NULL) =>
    LET base == Get(bk.formData.total_amount)
        c == Get(bk.appliedCoupon)
        least == IF c.minAmount = NULL THEN 0 ELSE 100 * Get(c.minAmount)
        raw == (base * c.discount) \div 100
        off == IF c.discountType # "percentage" THEN 100 * c.discount
               ELSE IF c.maxDiscount = NULL THEN raw
               ELSE IF raw <= 100 * Get(c.maxDiscount) THEN raw
               ELSE 100 * Get(c.maxDiscount)
        expected == IF bk.appliedCoupon = NULL THEN base
                    ELSE IF base < least THEN base
                    ELSE IF base - off < 0 THEN 0
                    ELSE base - off
    IN bk.formData.discounted_amount = Some(expected)

\* Two nights for one adult in the standard room, 6 rupees, with a coupon of
\* 150 percent capped at 1 rupee and asking for 6 rupees at least: 5 rupees
C12_CappedPercentage ==
  /\ bk.appliedCoupon # NULL
  /\ Get(bk.appliedCoupon).discountType = "percentage"
  /\ Get(bk.appliedCoupon).discount = 150
  /\ Get(bk.appliedCoupon).minAmount = Some(6)
  /\ Get(bk.appliedCoupon).maxDiscount = Some(1)
  /\ bk.formData.total_amount = Some(600)
  /\ bk.formData.discounted_amount = Some(500)

\* C13, as the specification states it: after a coupon fetch made for an
\* accommodation answers, allApplicableCoupons holds exactly the fetched
\* coupons that are active and whose accommodationType is null, "All" or the
\* accommodation's name, and is empty when the fetch failed.
C13_OfferedExactly ==
  (answered # NULL /\ Get(answered).op = "bkCoupons") =>
    LET a == Get(answered)
        name == Get(a.sel).name
        offered(c) == /\ c.active
                      /\ c.accommodationType \in {NULL, Some("All"), Some(name)}
    IN bk.allApplicableCoupons =
         IF a.ok THEN SelectSeq(coupons, offered) ELSE <<>>

\* C13, amended: the same with a coupon whose accommodationType is the empty
\* string offered like one whose accommodationType is null.
C13_OfferedExactlyOrEmptyType ==
  (answered # NULL /\ Get(answered).op = "bkCoupons") =>
    LET a == Get(answered)
        name == Get(a.sel).name
        offered(c) == /\ c.active
                      /\ c.accommodationType \in
                           {NULL, Some(""), Some("All"), Some(name)}
    IN bk.allApplicableCoupons =
         IF a.ok THEN SelectSeq(coupons, offered) ELSE <<>>

\* The fetch for the second accommodation, named "Lake View" and of type
\* "Deluxe", answers with a coupon for "Lake View" and one for "Deluxe": the
\* first alone is offered
C13_OfferedByName ==
  /\ answered # NULL
  /\ Get(answered).op = "bkCoupons"
  /\ Get(answered).ok
  /\ Get(Get(answered).sel).name = "Lake View"
  /\ Len(coupons) = 2
  /\ coupons[1].active /\ coupons[1].accommodationType = Some("Lake View")
  /\ coupons[2].active /\ coupons[2].accommodationType = Some("Deluxe")
  /\ bk.allApplicableCoupons = <<coupons[1]>>

\* C14: whenever an accommodation is selected, total_amount and
\* discounted_amount are what the price computation gives for the current
\* selectedAccommodation, adults, children, extra_adults, check_in, check_out
\* and appliedCoupon: no handler or answer leaves a stale total.
C14_TotalsCurrent ==
  bk.selectedAccommodation # NULL =>
    LET f == bk.formData
        numberOfDays == calculateNumberOfDays(f.check_in, f.check_out)
        baseTotal == Hundredths(BaseTotal(Get(bk.selectedAccommodation),
                                          OrZero(f.adults), OrZero(f.children),
                                          OrZero(f.extra_adults), numberOfDays))
    IN /\ f.total_amount = Some(IF numberOfDays = 0 THEN 0 ELSE baseTotal)
       /\ f.discounted_amount =
            Some(IF numberOfDays = 0 THEN 0
                 ELSE calculateDiscount(baseTotal, bk.appliedCoupon))

\* The villa coupon is applied to a two-night stay in the villa with an extra
\* adult, and the discounted amount follows: 14 rupees less 4
C14_CouponJustApplied ==
  /\ IsVilla(bk.selectedAccommodation)
  /\ bk.appliedCoupon # NULL
  /\ Get(bk.appliedCoupon).code = <<"F", "O", "U", "R">>
  /\ bk.formData.extra_adults = Some(1)
  /\ bk.formData.check_in = Some(0)
  /\ bk.formData.check_out = Some(2)
  /\ bk.formData.total_amount = Some(1400)
  /\ bk.formData.discounted_amount = Some(1000)
  /\ pending = EmptyBag

\* The save handleSaveBlockedDates has just sent, and the row of the list
\* of its render that carries the id of the request
SaveSent ==
  /\ mounted = "Calendar"
  /\ submitted # NULL
  /\ Get(submitted).view = "Calendar"
  /\ Get(submitted).sent

RowOfRequest ==
  LET r == Get(submitted)
      hits == SelectSeq(r.list, LAMBDA row : row.id = Get(r.id))
  IN hits[1]

\* C15: a save for an (accommodation, date) the table has a row for is a PUT
\* on that row's id, never a POST; so the table, which starts with no two
\* rows for one (accommodation, date), never holds two, whatever saves and
\* removals the client makes and whether or not its refetches succeed.
C15_UpdateNeverDuplicate ==
  /\ \A i, j \in 1..Len(store) :
       (/\ store[i].accommodation_id = store[j].accommodation_id
        /\ store[i].blocked_date = store[j].blocked_date) => i = j
  /\ SaveSent =>
       LET r == Get(submitted)
           rows == RelevantBlocked(store, Get(r.payload.accommodation_id),
                                   r.payload.dates[1])
       IN rows # <<>> => (r.method = "put" /\ r.id = Some(rows[1].id))

\* C16: a save from the price section that updates a row sends that row's
\* rooms value as room_number (null stays null), whether the row was loaded
\* by a day click, by the edit button, or found only at save time.
C16_PriceSaveKeepsRooms ==
  (SaveSent /\ Get(submitted).section = "price" /\ Get(submitted).method = "put")
    => Get(submitted).payload.room_number = RowOfRequest.rooms

\* C17: a save from the inventory section sends room_number null when
\* "block all" is on; otherwise selectedRoom - availableRooms when it creates
\* a row, and that difference plus the row's existing delta when it updates.
C17_InventoryRoomNumber ==
  (SaveSent /\ Get(submitted).section = "inventory") =>
    LET r == Get(submitted)
        difference == OrZero(r.selectedRoom) - OrZero(r.availableRooms)
    IN IF r.isBlockAll THEN r.payload.room_number = NULL
       ELSE IF r.method = "put"
       THEN r.payload.room_number = Some(difference + OrZero(RowOfRequest.rooms))
       ELSE r.payload.room_number = Some(difference)

\* C18: a save from the inventory section that updates a row sends that
\* row's adult_price and child_price; the accommodation's base package
\* prices are sent only when a new row is created.
C18_InventorySaveKeepsPrices ==
  (SaveSent /\ Get(submitted).section = "inventory") =>
    LET r == Get(submitted)
        base == getDefaultPrices(r.accs, r.payload.accommodation_id)
    IN IF r.method = "put"
       THEN /\ r.payload.adult_price = RowOfRequest.adult_price
            /\ r.payload.child_price = RowOfRequest.child_price
       ELSE /\ r.payload.adult_price = base.adult
            /\ r.payload.child_price = base.child

\* C19: the Calendar's price resolution for an (accommodation, date) returns
\* the prices of a blocked-date row only when that row has a non-null
\* adult_price or child_price; when there is no such row (none at all, one
\* with both prices null, or a failed read) it returns the accommodation's
\* base package prices.
C19_BasePricesUnlessOverride ==
  (answered # NULL /\ Get(answered).op = "prices") =>
    LET a == Get(answered)
        hits == RelevantBlocked(store, Get(a.acc), Get(a.day))
        priced == SelectSeq(hits, LAMBDA r : r.adult_price # NULL
                                             \/ r.child_price # NULL)
    IN IF a.ok /\ priced # <<>>
       THEN a.prices = [adult |-> priced[1].adult_price,
                        child |-> priced[1].child_price]
       ELSE a.prices = getDefaultPrices(a.accs, a.acc)

\* C20: when the room-occupancy read fails, the availability resolution of
\* either view goes on with bookedRooms = 0: it completes, stores an
\* availability value computed with 0 booked rooms, and leaves the view's
\* error state as it was.
C20_FailedOccupancyCountsZero ==
  (answered # NULL /\ ~Get(answered).ok) =>
    LET a == Get(answered)
    IN /\ a.op = "occupancy" =>
            /\ resolved # NULL
            /\ Get(resolved).booked = 0
            /\ Get(resolved).available =
                 Max0(Get(resolved).total
                      + (IF Get(resolved).governing = NULL THEN 0
                         ELSE OrZero(Get(Get(resolved).governing).rooms)))
            /\ cal.availableRooms = Some(Get(resolved).available)
            /\ ~cal.isFetchingBookedRooms
            /\ cal.error = a.error
       /\ a.op = "bkOccupancy" =>
            /\ bk.availableRooms = Max0(a.total - a.blocked)
            /\ bk.dateError = a.error

\* C20 witness: a failed occupancy read of the Calendar after which a
\* positive availability is shown and no error is
C20_FailedReadStillResolves ==
  /\ answered # NULL
  /\ Get(answered).op = "occupancy"
  /\ ~Get(answered).ok
  /\ cal.availableRooms # NULL
  /\ Get(cal.availableRooms) > 0
  /\ cal.error = ""

\* C29: when a save from the inventory section updates a row, the
\* "existing blocked rooms" value it adds to the difference
\* (blockedRoomForDate) is the rooms value of the row being updated, never
\* one left over from another date or accommodation.
C29_ExistingDeltaIsTheRows ==
  (/\ SaveSent
   /\ Get(submitted).section = "inventory"
   /\ Get(submitted).method = "put"
   /\ ~Get(submitted).isBlockAll)
    => cal.blockedRoomForDate = OrNull(OrZero(RowOfRequest.rooms))

\* C28: a save of room count s from the inventory section (block-all off)
\* round-trips: with the sent room_number stored as the row's rooms and the
\* bookings unchanged, calculateAvailableRooms for that accommodation and
\* date returns s again, for a create and for an update, and also when the
\* availability shown before the save had been clamped to 0.
C28_InventorySaveRoundTrip ==
  (SaveSent /\ Get(submitted).section = "inventory" /\ ~Get(submitted).isBlockAll) =>
    LET r == Get(submitted)
        before == CalcPrefix(r.accs, r.list, Get(r.payload.accommodation_id),
                             r.payload.dates[1])
    IN \A bookedRooms \in 0..MaxBooked :
         Available(before.total, before.delta, bookedRooms)
             = OrZero(r.availableRooms)
           => Available(before.total, r.payload.room_number, bookedRooms)
                = OrZero(r.selectedRoom)

\* C23: a row created by a save from the price section (an id the table did
\* not hold at first; it carries a price and no reason) has no inventory
\* impact: once the refetched list shows it, its date cell is not
\* FullyBlocked for its accommodation, so the cell stays clickable.
C23_PriceOnlyStaysClickable ==
  \A i \in 1..Len(cal.blockedDates) :
    LET row == cal.blockedDates[i]
    IN (/\ row.id > MaxRecs
        /\ row.reason = ""
        /\ cal.selectedAccommodationId = Some(row.accommodation_id))
         => ~IsFullyBlocked(cal, row.blocked_date)

\* C26: whenever appliedCoupon is set it is a coupon eligible for the
\* selected accommodation (active, with accommodationType null, "All" or the
\* accommodation's name), whatever the order of accommodation changes,
\* coupon answers and coupon selections.
C26_AppliedCouponEligible ==
  bk.appliedCoupon # NULL =>
    /\ bk.selectedAccommodation # NULL
    /\ \E i \in 1..Len(ApplicableCoupons(coupons, Get(bk.selectedAccommodation))) :
         ApplicableCoupons(coupons, Get(bk.selectedAccommodation))[i]
           = Get(bk.appliedCoupon)

\* C25: whenever a booking POST is issued, the accommodation_id of its
\* payload is the id of selectedAccommodation, the accommodation whose
\* prices, type and capacity gave the payload's amounts and passed the
\* checks, after any sequence of accommodation changes and detail answers.
C25_PayloadOfSelected ==
  (/\ submitted # NULL
   /\ "outcome" \in DOMAIN Get(submitted)
   /\ Get(submitted).outcome = "post")
    => /\ Get(submitted).sel # NULL
       /\ Some(Get(Get(submitted).sel).id) = Get(submitted).form.accommodation_id

\* C27: no booking POST is issued for a stay [check_in, check_out) that
\* holds a date for which the loaded blocked-dates list has a row of the
\* chosen accommodation, in whatever order dates and accommodation were
\* entered.
C27_NoPostOnBlockedStay ==
  (/\ submitted # NULL
   /\ "outcome" \in DOMAIN Get(submitted)
   /\ Get(submitted).outcome = "post")
    => LET f == Get(submitted).form
       IN \A d \in Get(f.check_in)..(Get(f.check_out) - 1) :
            RelevantBlocked(bk.blockedDates, Get(f.accommodation_id), d) = <<>>

\* C21: an occupancy read of the form is neither cancelled nor guarded by a
\* request generation: whichever read answers, for the current inputs or
\* for superseded ones, availableRooms becomes the value computed from that
\* read's own request; so an answer for superseded inputs that arrives last
\* overwrites the value of the current ones.
C21_AnswerWritesItsOwnValue ==
  (answered # NULL /\ Get(answered).op = "bkOccupancy") =>
    bk.availableRooms = BkAvailable(Get(answered).total, Get(answered).booked,
                                    Some(Get(answered).blocked))

\* C21 witness: the villa (1 room) is the chosen accommodation and its read
\* has answered; the read for the superseded accommodation 2 answers last
\* and leaves availableRooms = 2
C21_SupersededAnswerLast ==
  /\ answered # NULL
  /\ Get(answered).op = "bkOccupancy"
  /\ Get(answered).acc = Some(2)
  /\ bk.formData.accommodation_id = Some(1)
  /\ IsVilla(bk.selectedAccommodation)
  /\ Get(answered).checkIn = bk.formData.check_in
  /\ pending = EmptyBag
  /\ bk.availableRooms = 2
  /\ bk.availableRooms > Get(bk.selectedAccommodation).available_rooms

\* C22: a click never selects a date cell that is FullyBlocked for the
\* selected accommodation (a row of it with rooms null in the loaded list):
\* every step that makes a date the last clicked one starts from a render in
\* which that date is not FullyBlocked.  The row of such a date can still be
\* loaded by the edit button of the list and updated.
C22_BlockedCellNotClickable ==
  [][\A day \in Days :
       (cal'.lastClickedDate = Some(day) /\ cal.lastClickedDate # Some(day))
         => ~IsFullyBlocked(cal, day)]_vars

\* C22 witness: the row that blocks every room tomorrow was loaded by the
\* edit button, no click having been made, and its update is sent
C22_BlockedRowUpdatedByEdit ==
  /\ SaveSent
  /\ Get(submitted).method = "put"
  /\ RowOfRequest.rooms = NULL
  /\ IsFullyBlocked(cal, Get(submitted).payload.dates[1])
  /\ cal.editingDate = Some(RowOfRequest)
  /\ cal.lastClickedDate = NULL

\* C24: when a booking or blocked-date write fails (the request fails, the
\* status is not OK, or the answer has no success), the failure is shown as
\* an error, no write is left in flight (no retry), the success path (form
\* reset and refetch, navigation) is not taken, and the flag that the write
\* had set (loading, isDeleting) is false again.
C24_FailedWriteSurfaced ==
  (answered # NULL /\ ~Get(answered).ok) =>
    LET a == Get(answered)
        InFlight(op) == \E k \in BagToSet(pending) : k.op = op
    IN /\ a.op = "save" =>
            /\ cal.error \in {"Failed to save", "Error connecting to server"}
            /\ ~cal.loading
            /\ cal.showForm
            /\ ~InFlight("save") /\ ~InFlight("blockedDates")
       /\ a.op = "remove" =>
            /\ cal.error \in {"Failed to remove blocked date",
                               "Error connecting to server"}
            /\ ~cal.isDeleting
            /\ ~InFlight("remove") /\ ~InFlight("blockedDates")
       /\ a.op = "bkBooking" =>
            /\ a.alert = "Error creating booking"
            /\ mounted = "CreateBooking"
            /\ ~bk.loading
            /\ ~InFlight("bkBooking")

\* C24 witness: the update of a row is refused; the form is still open on
\* that row with the error shown
C24_RefusedUpdate ==
  /\ answered # NULL
  /\ Get(answered).op = "save"
  /\ ~Get(answered).ok
  /\ cal.error = "Failed to save"
  /\ cal.editingDate # NULL
  /\ cal.showForm
  /\ ~cal.loading
  /\ store = WriteTable

\* C30: no blocked-date POST or PUT is issued for a date earlier than
\* today, whether the date was reached by a day click or by the edit
\* button of the blocked-dates list.
C30_NoWriteOnPastDate ==
  SaveSent => ~IsPast(Get(submitted).payload.dates[1])

====
